---- MODULE Spec2Model ----
(***************************************************************************)
(* Cloudflare Worker full-page cache for Magento 2: the request           *)
(* normalizer, the bypass policy, the cache-key deriver, the cache-record *)
(* state machine, the origin fetch pipeline and background revalidation.  *)
(*                                                                         *)
(* Strings of the program are sequences of one-character strings, so that *)
(* concatenation, prefix and substring tests are the program's own.       *)
(***************************************************************************)
EXTENDS Integers, Sequences, FiniteSets, TLC

(* ------------------------------------------------------------------ *)
(* String literals                                                     *)
(* ------------------------------------------------------------------ *)
CACHE_PREFIX == <<"f", "p", "c", ":">>
L_vary == <<":", ":", "v", "a", "r", "y", ":">>
L_graphqlTag == <<":", ":", "g", "r", "a", "p", "h", "q", "l", ":">>
L_authorized == <<":", "a", "u", "t", "h", "o", "r", "i", "z", "e", "d">>
L_vh == <<":", ":", "v", "h", ":">>
L_device == <<":", ":", "d", "e", "v", "i", "c", "e", ":">>
L_ssl == <<":", ":", "s", "s", "l", ":">>
L_store == <<":", ":", "s", "t", "o", "r", "e", ":">>
L_currency == <<":", ":", "c", "u", "r", "r", "e", "n", "c", "y", ":">>
L_mobile == <<"m", "o", "b", "i", "l", "e">>
L_tablet == <<"t", "a", "b", "l", "e", "t">>
L_desktop == <<"d", "e", "s", "k", "t", "o", "p">>
L_bearer == <<"b", "e", "a", "r", "e", "r">>
L_host == <<"h">>
L_pathP == <<"/", "p">>
L_pathGraphql == <<"/", "g", "r", "a", "p", "h", "q", "l">>
L_pathStatic == <<"/", "m", "e", "d", "i", "a", "/", "x">>
L_pathCart == <<"/", "m", "y", "/", "c", "a", "r", "t">>
L_pathHealth == <<"/", "h", "e", "a", "l", "t", "h", "_", "c", "h", "e", "c", "k", ".", "p", "h", "p">>
L_x == <<"x">>
L_s == <<"s">>
L_usd == <<"U", "S", "D">>
L_https == <<"h", "t", "t", "p", "s">>
L_geo == <<"X", "-", "G", "e", "o">>
L_de == <<"d", "e">>
(* header values *)
T_private == <<"p", "r", "i", "v", "a", "t", "e">>
T_noStore == <<"n", "o", "-", "s", "t", "o", "r", "e">>
T_noCache == <<"n", "o", "-", "c", "a", "c", "h", "e">>
T_forcedCacheControl == <<"n", "o", "-", "s", "t", "o", "r", "e", ",", " ", "n", "o", "-", "c", "a", "c", "h", "e", ",", " ", "m", "u", "s", "t", "-", "r", "e", "v", "a", "l", "i", "d", "a", "t", "e", ",", " ", "m", "a", "x", "-", "a", "g", "e", "=", "0">>
T_html == <<"t", "e", "x", "t", "/", "h", "t", "m", "l">>
T_css == <<"t", "e", "x", "t", "/", "c", "s", "s">>
T_js == <<"a", "p", "p", "l", "i", "c", "a", "t", "i", "o", "n", "/", "j", "a", "v", "a", "s", "c", "r", "i", "p", "t">>
T_json == <<"a", "p", "p", "l", "i", "c", "a", "t", "i", "o", "n", "/", "j", "s", "o", "n">>
T_textJs == <<"t", "e", "x", "t", "/", "j", "a", "v", "a", "s", "c", "r", "i", "p", "t">>
T_star == <<"*">>
T_normal == <<"n", "o", "r", "m", "a", "l">>
T_minusOne == <<"-", "1">>
T_sMaxage == <<"s", "-", "m", "a", "x", "a", "g", "e", "=">>
T_maxAge == <<"m", "a", "x", "-", "a", "g", "e", "=">>
(* values carrying key delimiters *)
L_pathInj == L_pathGraphql \o L_graphqlTag \o L_x \o L_authorized \o L_device \o L_desktop \o L_store \o L_s
L_storeInj == L_s \o L_graphqlTag \o L_x \o L_device \o L_desktop
L_idInj == <<"i", ":", ":", "v", "a", "r", "y", ":", "j">>
(* query strings (without the leading question mark) *)
Q_ab == <<"a", "=", "1", "&", "b", "=", "2">>
Q_ba == <<"b", "=", "2", "&", "a", "=", "1">>
Q_a12 == <<"a", "=", "1", "&", "a", "=", "2">>
Q_a21 == <<"a", "=", "2", "&", "a", "=", "1">>
Q_a == <<"a", "=", "1">>
Q_gclid == <<"g", "c", "l", "i", "d", "=", "z", "&", "a", "=", "1">>
Q_GCLID == <<"a", "=", "1", "&", "G", "C", "L", "I", "D", "=", "z">>
Q_utm == <<"U", "t", "m", "_", "x", "=", "1", "&", "&", "b", "=", "2", "&", "u", "t", "m", "_", "x", "=", "3">>
Q_inj == <<"a", "=", ":", ":", "g", "r", "a", "p", "h", "q", "l", ":", "1">>
Q_Ab == <<"B", "=", "1", "&", "b", "=", "2", "&", "a", "=", "3">>
(* cookie headers *)
C_vary1 == <<"X", "-", "M", "a", "g", "e", "n", "t", "o", "-", "V", "a", "r", "y", "=", "v", "1">>
C_vary2 == <<"o", "=", "1", ";", " ", "x", "-", "m", "a", "g", "e", "n", "t", "o", "-", "v", "a", "r", "y", "=", "v", "2", "=", "w", ";", " ", "X", "-", "M", "a", "g", "e", "n", "t", "o", "-", "V", "a", "r", "y", "=", "v", "3">>
C_other == <<"f", "o", "r", "m", "_", "k", "e", "y", "=", "k">>
C_session == <<"P", "H", "P", "S", "E", "S", "S", "I", "D", "=", "s">>
C_mixed == <<"o", "=", "1", ";", " ", "P", "H", "P", "S", "E", "S", "S", "I", "D", "=", "s", ";", "f", "o", "r", "m", "_", "k", "e", "y", "=", "k">>
L_phpsessid == <<"p", "h", "p", "s", "e", "s", "s", "i", "d">>
(* authorization headers *)
A_bearer == <<"B", "e", "a", "r", "e", "r", " ", "t">>
A_bearerLc == <<"b", "e", "a", "r", "e", "r", " ", " ", "t">>
A_basic == <<"B", "a", "s", "i", "c", " ", "q">>
(* user agents *)
UA_phone == <<"i", "P", "h", "o", "n", "e">>
UA_ipad == <<"i", "P", "a", "d">>
UA_desk == <<"M", "o", "z", "i", "l", "l", "a">>

(* ------------------------------------------------------------------ *)
(* String primitives of the JavaScript runtime                         *)
(* ------------------------------------------------------------------ *)
Min(S) == CHOOSE m \in S : \A n \in S : m <= n

Lower(c) == CASE c = "A" -> "a" [] c = "B" -> "b" [] c = "C" -> "c" [] c = "D" -> "d" [] c = "E" -> "e" [] c = "F" -> "f" [] c = "G" -> "g" [] c = "H" -> "h" [] c = "I" -> "i" [] c = "J" -> "j" [] c = "K" -> "k" [] c = "L" -> "l" [] c = "M" -> "m" [] c = "N" -> "n" [] c = "O" -> "o" [] c = "P" -> "p" [] c = "Q" -> "q" [] c = "R" -> "r" [] c = "S" -> "s" [] c = "T" -> "t" [] c = "U" -> "u" [] c = "V" -> "v" [] c = "W" -> "w" [] c = "X" -> "x" [] c = "Y" -> "y" [] c = "Z" -> "z" [] OTHER -> c

toLowerCase(str) == [i \in 1..Len(str) |-> Lower(str[i])]

startsWith(str, prefix) == Len(prefix) <= Len(str) /\ SubSeq(str, 1, Len(prefix)) = prefix

includes(str, sub) == \E i \in 1..(Len(str) - Len(sub) + 1) : SubSeq(str, i, i + Len(sub) - 1) = sub

RECURSIVE Split(_, _)
Split(str, sep) ==
  IF \A i \in 1..Len(str) : str[i] # sep THEN <<str>>
  ELSE LET i == Min({j \in 1..Len(str) : str[j] = sep})
       IN <<SubSeq(str, 1, i - 1)>> \o Split(SubSeq(str, i + 1, Len(str)), sep)

RECURSIVE Join(_, _)
Join(parts, sep) ==
  IF parts = <<>> THEN <<>>
  ELSE IF Len(parts) = 1 THEN parts[1]
  ELSE parts[1] \o sep \o Join(Tail(parts), sep)

RECURSIVE Concat(_)
Concat(parts) == IF parts = <<>> THEN <<>> ELSE Head(parts) \o Concat(Tail(parts))

RECURSIVE trim(_)
trim(str) ==
  IF str # <<>> /\ Head(str) = " " THEN trim(Tail(str))
  ELSE IF str # <<>> /\ str[Len(str)] = " " THEN trim(SubSeq(str, 1, Len(str) - 1))
  ELSE str

(* String.prototype.localeCompare: letters compare without case first     *)
(* (punctuation before digits before letters); on a tie the lower-case    *)
(* letter comes first.                                                     *)
CollationOrder == <<"_", "-", ".", "0", "1", "2", "3", "4", "5", "6", "7", "8", "9", "a", "b", "c", "d", "e", "f", "g", "h", "i", "j", "k", "l", "m", "n", "o", "p", "q", "r", "s", "t", "u", "v", "w", "x", "y", "z">>

CharRank(c) == IF \E i \in 1..Len(CollationOrder) : CollationOrder[i] = Lower(c)
               THEN Min({i \in 1..Len(CollationOrder) : CollationOrder[i] = Lower(c)})
               ELSE 0

CaseRank(c) == IF Lower(c) = c THEN 0 ELSE 1

CompareRanks(x, y) ==
  LET n == IF Len(x) < Len(y) THEN Len(x) ELSE Len(y)
      diff == {i \in 1..n : x[i] # y[i]}
  IN IF diff # {} THEN (IF x[Min(diff)] < y[Min(diff)] THEN -1 ELSE 1)
     ELSE IF Len(x) < Len(y) THEN -1
     ELSE IF Len(x) > Len(y) THEN 1
     ELSE 0

localeCompare(a, b) ==
  LET byLetter == CompareRanks([i \in 1..Len(a) |-> CharRank(a[i])], [i \in 1..Len(b) |-> CharRank(b[i])])
      byCase == CompareRanks([i \in 1..Len(a) |-> CaseRank(a[i])], [i \in 1..Len(b) |-> CaseRank(b[i])])
  IN IF byLetter # 0 THEN byLetter ELSE byCase

(* Array.prototype.sort with a comparator on the pair names: stable.   *)
InsertPair_append(sorted, p) == Append(sorted, p)

InsertPair(sorted, p) ==
  LET k == Cardinality({i \in 1..Len(sorted) : localeCompare(sorted[i][1], p[1]) <= 0})
  IN SubSeq(sorted, 1, k) \o <<p>> \o SubSeq(sorted, k + 1, Len(sorted))

RECURSIVE SortPairs(_)
SortPairs(pairs) ==
  IF pairs = <<>> THEN <<>>
  ELSE InsertPair(SortPairs(SubSeq(pairs, 1, Len(pairs) - 1)), pairs[Len(pairs)])

(* URLSearchParams: the query is split at "&", empty pieces are dropped, *)
(* each piece is split at its first "=".  Percent-escapes are outside    *)
(* the modelled alphabet.                                                 *)
ParsePair(piece) ==
  IF \E i \in 1..Len(piece) : piece[i] = "="
  THEN LET i == Min({j \in 1..Len(piece) : piece[j] = "="})
       IN <<SubSeq(piece, 1, i - 1), SubSeq(piece, i + 1, Len(piece))>>
  ELSE <<piece, <<>>>>

searchParams(search) ==
  LET pieces == SelectSeq(Split(search, "&"), LAMBDA p : p # <<>>)
  IN [i \in 1..Len(pieces) |-> ParsePair(pieces[i])]

paramsToString(pairs) == Join([i \in 1..Len(pairs) |-> pairs[i][1] \o <<"=">> \o pairs[i][2]], <<"&">>)

(* ------------------------------------------------------------------ *)
(* Configuration                                                       *)
(* ------------------------------------------------------------------ *)
DEFAULTS ==
  [ defaultTtl |-> 1,
    graceSeconds |-> 1,
    hitForPassSeconds |-> 1,
    respectPrivateNoCache |-> FALSE,
    respectCacheControl |-> FALSE,
    staticPathPattern |-> {<<"/", "m", "e", "d", "i", "a", "/">>, <<"/", "s", "t", "a", "t", "i", "c", "/">>, <<"/", "p", "u", "b", "/", "m", "e", "d", "i", "a", "/">>, <<"/", "p", "u", "b", "/", "s", "t", "a", "t", "i", "c", "/">>},
    healthCheckPattern |-> {<<"/", "h", "e", "a", "l", "t", "h", "_", "c", "h", "e", "c", "k", ".", "p", "h", "p">>, <<"/", "p", "u", "b", "/", "h", "e", "a", "l", "t", "h", "_", "c", "h", "e", "c", "k", ".", "p", "h", "p">>},
    marketingParams |-> <<<<"g", "c", "l", "i", "d">>, <<"u", "t", "m", "_", "*">>>>,
    excludedPaths |-> <<<<"/", "a", "d", "m", "i", "n">>, <<"/", "c", "a", "r", "t">>>>,
    graphqlPath |-> <<"/", "g", "r", "a", "p", "h", "q", "l">>,
    varyCookies |-> <<<<"X", "-", "M", "a", "g", "e", "n", "t", "o", "-", "V", "a", "r", "y">>>>,
    varyHeaders |-> <<>>,
    cacheableCookieNames |-> <<<<"X", "-", "M", "a", "g", "e", "n", "t", "o", "-", "V", "a", "r", "y">>, <<"s", "t", "o", "r", "e">>, <<"f", "o", "r", "m", "_", "k", "e", "y">>>>,
    cacheLoggedIn |-> TRUE,
    varyOnDeviceType |-> TRUE,
    mobileUaPattern |-> {<<"p", "h", "o", "n", "e">>, <<"i", "p", "o", "d">>},
    tabletUaPattern |-> {<<"i", "p", "a", "d">>},
    cacheableMimeTypes |-> <<T_html, T_css, T_textJs, T_js>>,
    originHost |-> <<>>,
    returnClaims |-> TRUE,
    replaceOriginLinks |-> FALSE,
    purgeSecret |-> <<>>,
    plugins |-> <<>> ]

(* ------------------------------------------------------------------ *)
(* Normalizer                                                          *)
(* ------------------------------------------------------------------ *)
matchesPattern_caseSensitive(value, pattern) ==
  IF pattern = <<>> THEN FALSE
  ELSE IF pattern[Len(pattern)] = "*"
       THEN startsWith(value, SubSeq(pattern, 1, Len(pattern) - 1))
       ELSE value = pattern

matchesPattern(value, pattern) ==
  IF pattern = <<>> THEN FALSE
  ELSE IF pattern[Len(pattern)] = "*"
       THEN startsWith(toLowerCase(value), toLowerCase(SubSeq(pattern, 1, Len(pattern) - 1)))
       ELSE toLowerCase(value) = toLowerCase(pattern)

RECURSIVE StripLoop(_, _, _, _)
StripLoop(keys, params, removed, patterns) ==
  IF keys = <<>> THEN [params |-> params, removed |-> removed]
  ELSE LET key == Head(keys)
       IN IF \E i \in 1..Len(patterns) : matchesPattern(key, patterns[i])
          THEN StripLoop(Tail(keys), SelectSeq(params, LAMBDA p : p[1] # key), Append(removed, key), patterns)
          ELSE StripLoop(Tail(keys), params, removed, patterns)

(* Array.from(params.keys()) *)
ParamKeys(params) == [i \in 1..Len(params) |-> params[i][1]]

(* line 78: url.search is rewritten from what the loop left *)
SetSearch(url, done) ==
  [url |-> [url EXCEPT !.search = paramsToString(done.params)], removed |-> done.removed]

(* lines 66-79, on the parsed parameters *)
StripParams(url, params, patterns) ==
  IF ParamKeys(params) = <<>> THEN [url |-> url, removed |-> <<>>]
  ELSE SetSearch(url, StripLoop(ParamKeys(params), params, <<>>, patterns))

stripMarketingParams(url, cfg) == StripParams(url, searchParams(url.search), cfg.marketingParams)

(* lines 55-60: the record normalizeUrl returns *)
Normalized(stripped) ==
  [url |-> stripped.url, pathname |-> stripped.url.pathname, search |-> stripped.url.search,
   marketingRemoved |-> stripped.removed]

normalizeUrl(url, cfg) == Normalized(stripMarketingParams(url, cfg))

Or(a, b) == IF a # <<>> THEN a ELSE b

IsWhitespace(c) == c = " "

(* new URL(request.url) *)
UrlOf(request) == [hostname |-> request.hostname, pathname |-> request.pathname, search |-> request.search]

(* lines 9-49: the Context built from the request and its normalized url *)
ContextOf(request, cfg, normalized, h) ==
     [ request |-> request,
       cacheKey |-> <<>>,
       url |-> normalized.url,
       pathname |-> normalized.pathname,
       search |-> normalized.search,
       marketingRemoved |-> normalized.marketingRemoved,
       cookieHeader |-> h.cookie,
       sslOffloaded |-> Or(h.cfVisitor, h.xForwardedProto),
       isStatic |-> \E p \in cfg.staticPathPattern : startsWith(normalized.pathname, p),
       isHealthCheck |-> normalized.pathname \in cfg.healthCheckPattern,
       isGraphql |-> startsWith(normalized.pathname, cfg.graphqlPath),
       magentoCacheId |-> h.xMagentoCacheId,
       hasAuthToken |-> /\ startsWith(toLowerCase(h.authorization), L_bearer)
                        /\ Len(h.authorization) > Len(L_bearer)
                        /\ IsWhitespace(h.authorization[Len(L_bearer) + 1]),
       authHeader |-> h.authorization,
       store |-> Or(h.store, h.xStore),
       currency |-> Or(h.contentCurrency, h.xCurrency),
       isBypassed |-> FALSE,
       claims |-> IF normalized.marketingRemoved # <<>> THEN <<"strip_params">> ELSE <<>> ]

createContext(request, cfg) == ContextOf(request, cfg, normalizeUrl(UrlOf(request), cfg), request.headers)

(* ------------------------------------------------------------------ *)
(* Bypass policy                                                       *)
(* ------------------------------------------------------------------ *)
shouldBypass_pathFirst(ctx, cfg) ==
  IF \E i \in 1..Len(cfg.excludedPaths) : includes(ctx.pathname, cfg.excludedPaths[i])
    THEN [bypass |-> TRUE, reason |-> <<"excluded-path">>]
  ELSE IF ctx.request.method # "GET" /\ ctx.request.method # "HEAD"
    THEN [bypass |-> TRUE, reason |-> <<"method:", ctx.request.method>>]
  ELSE IF ctx.request.method = "HEAD" /\ ctx.request.headers.range # <<>>
    THEN [bypass |-> TRUE, reason |-> <<"range-head">>]
  ELSE IF ctx.isHealthCheck THEN [bypass |-> TRUE, reason |-> <<"health-check">>]
  ELSE IF ctx.isStatic THEN [bypass |-> TRUE, reason |-> <<"static-path">>]
  ELSE IF ctx.isGraphql /\ ctx.hasAuthToken /\ ctx.magentoCacheId = <<>>
    THEN [bypass |-> TRUE, reason |-> <<"graphql-auth-pass">>]
  ELSE [bypass |-> FALSE, reason |-> <<>>]

shouldBypass(ctx, cfg) ==
  IF ctx.request.method # "GET" /\ ctx.request.method # "HEAD"
    THEN [bypass |-> TRUE, reason |-> <<"method:", ctx.request.method>>]
  ELSE IF ctx.request.method = "HEAD" /\ ctx.request.headers.range # <<>>
    THEN [bypass |-> TRUE, reason |-> <<"range-head">>]
  ELSE IF ctx.isHealthCheck THEN [bypass |-> TRUE, reason |-> <<"health-check">>]
  ELSE IF ctx.isStatic THEN [bypass |-> TRUE, reason |-> <<"static-path">>]
  ELSE IF \E i \in 1..Len(cfg.excludedPaths) : includes(ctx.pathname, cfg.excludedPaths[i])
    THEN [bypass |-> TRUE, reason |-> <<"excluded-path">>]
  ELSE IF ctx.isGraphql /\ ctx.hasAuthToken /\ ctx.magentoCacheId = <<>>
    THEN [bypass |-> TRUE, reason |-> <<"graphql-auth-pass">>]
  ELSE [bypass |-> FALSE, reason |-> <<>>]

(* ------------------------------------------------------------------ *)
(* Cache key deriver                                                   *)
(* ------------------------------------------------------------------ *)
(* line 158: split at ";", trim, drop the empty chunks *)
TrimAll(chunks) == SelectSeq([i \in 1..Len(chunks) |-> trim(chunks[i])], LAMBDA c : c # <<>>)

CookieMatches(cookie, name) == startsWith(toLowerCase(cookie), toLowerCase(name) \o <<"=">>)

(* line 162: cookies.find(...) *)
FindCookie(cookies, name) == cookies[Min({i \in 1..Len(cookies) : CookieMatches(cookies[i], name)})]

(* line 163: found.split('=')[1] of every name that was found *)
CookieValues(cookies, present) ==
  [i \in 1..Len(present) |-> Split(FindCookie(cookies, present[i]), "=")[2]]

(* lines 161-166 *)
WantedCookies(cookies, names) ==
  Join(CookieValues(cookies, SelectSeq(names, LAMBDA n : \E i \in 1..Len(cookies) : CookieMatches(cookies[i], n))),
       <<"_">>)

extractCookieValue(cookieHeader, names) ==
  IF cookieHeader = <<>> \/ names = <<>> THEN <<>>
  ELSE WantedCookies(TrimAll(Split(cookieHeader, ";")), names)

(* lines 173-178 *)
VaryValues(headers, present) ==
  Join([i \in 1..Len(present) |-> present[i] \o <<"=">> \o headers.vary[present[i]]], <<"_">>)

extractVaryHeaders(headers, names) ==
  IF names = <<>> THEN <<>>
  ELSE VaryValues(headers, SelectSeq(names, LAMBDA n : headers.vary[n] # <<>>))

detectDeviceType(userAgent, cfg) ==
  IF userAgent = <<>> THEN L_desktop
  ELSE IF \E p \in cfg.mobileUaPattern : includes(toLowerCase(userAgent), p) THEN L_mobile
  ELSE IF \E p \in cfg.tabletUaPattern : includes(toLowerCase(userAgent), p) THEN L_tablet
  ELSE L_desktop

(* The pieces computeCacheKey appends, in order: each piece is the      *)
(* literal the code writes and the request value that follows it.       *)
Piece(lit, val) == [lit |-> lit, val |-> val]

PiecesOf(ctx, cfg, params, pairs, varyCookie, varyHeaderValue) ==
     <<Piece(CACHE_PREFIX, ctx.url.hostname \o ctx.url.pathname)>>
     \o (IF params # <<>> /\ pairs # <<>>
         THEN <<Piece(<<"?">>, paramsToString(pairs))>> ELSE <<>>)
     \o (IF ctx.isGraphql /\ ctx.magentoCacheId # <<>>
         THEN <<Piece(L_graphqlTag, ctx.magentoCacheId)>>
              \o (IF ctx.hasAuthToken THEN <<Piece(L_authorized, <<>>)>> ELSE <<>>)
         ELSE (IF varyCookie # <<>> THEN <<Piece(L_vary, varyCookie)>> ELSE <<>>))
     \o (IF varyHeaderValue # <<>> THEN <<Piece(L_vh, varyHeaderValue)>> ELSE <<>>)
     \o (IF cfg.varyOnDeviceType
         THEN <<Piece(L_device, detectDeviceType(ctx.request.headers.userAgent, cfg))>> ELSE <<>>)
     \o (IF ctx.sslOffloaded # <<>> THEN <<Piece(L_ssl, ctx.sslOffloaded)>> ELSE <<>>)
     \o (IF ctx.isGraphql
         THEN (IF ctx.store # <<>> THEN <<Piece(L_store, ctx.store)>> ELSE <<>>)
              \o (IF ctx.currency # <<>> THEN <<Piece(L_currency, ctx.currency)>> ELSE <<>>)
         ELSE <<>>)

(* line 121: the entries sorted by name *)
SortedPieces(ctx, cfg, params) ==
  PiecesOf(ctx, cfg, params, SortPairs(params),
           extractCookieValue(ctx.cookieHeader, cfg.varyCookies),
           extractVaryHeaders(ctx.request.headers, cfg.varyHeaders))

keyPieces(ctx, cfg) == SortedPieces(ctx, cfg, searchParams(ctx.url.search))

WritePieces_valuesOnly(pieces) == Concat([i \in 1..Len(pieces) |-> pieces[i].val])

(* the key is the pieces written one after the other *)
WritePieces(pieces) == Concat([i \in 1..Len(pieces) |-> pieces[i].lit \o pieces[i].val])

computeCacheKey(ctx, cfg) == WritePieces(keyPieces(ctx, cfg))

(* ------------------------------------------------------------------ *)
(* Headers objects: a function from lower-case header names to values  *)
(* ------------------------------------------------------------------ *)
HGet(h, name) == IF name \in DOMAIN h THEN h[name] ELSE <<>>

HHas(h, name) == name \in DOMAIN h

HSet(h, name, value) == [n \in (DOMAIN h) \cup {name} |-> IF n = name THEN value ELSE h[n]]

HDelete(h, name) == [n \in (DOMAIN h) \ {name} |-> h[n]]

RECURSIVE HDeleteAll(_, _)
HDeleteAll(h, names) == IF names = <<>> THEN h ELSE HDeleteAll(HDelete(h, Head(names)), Tail(names))

NoHeaders == [n \in {} |-> <<>>]

(* ------------------------------------------------------------------ *)
(* Response bodies: a sequence of text units.  "<origin>" is an        *)
(* absolute link naming the origin host, "<request>" the same link     *)
(* naming the request host, "<css>" a merged-stylesheet link.          *)
(* ------------------------------------------------------------------ *)
UnitLength(u) == IF u \in {"<origin>", "<request>", "<css>"} THEN 8 ELSE 1

RECURSIVE BodyLength(_)
BodyLength(body) == IF body = <<>> THEN 0 ELSE UnitLength(Head(body)) + BodyLength(Tail(body))

replaceOriginLinks(body, ctx, cfg) ==
  IF cfg.originHost = <<>> \/ cfg.originHost = ctx.url.hostname THEN body
  ELSE [i \in 1..Len(body) |-> IF body[i] = "<origin>" THEN "<request>" ELSE body[i]]

(* ------------------------------------------------------------------ *)
(* Response finalization                                               *)
(* ------------------------------------------------------------------ *)
StatusText(cacheState) ==
  CASE cacheState = "HIT" -> <<"H", "I", "T">>
    [] cacheState = "STALE" -> <<"S", "T", "A", "L", "E">>
    [] cacheState = "MISS" -> <<"M", "I", "S", "S">>
    [] OTHER -> <<"U", "N", "C", "A", "C", "H", "E", "A", "B", "L", "E">>

removeHeaders == <<"x-magento-debug", "x-magento-tags", "x-pool", "x-powered-by", "server", "x-varnish", "via", "link">>

ClaimOf(cacheState) ==
  CASE cacheState = "HIT" -> "cache:hit"
    [] cacheState = "STALE" -> "cache:stale"
    [] cacheState = "MISS" -> "cache:miss"
    [] OTHER -> "cache:uncacheable"

RECURSIVE Dedup(_)
Dedup(list) ==
  IF list = <<>> THEN <<>>
  ELSE LET front == Dedup(SubSeq(list, 1, Len(list) - 1))
       IN IF \E i \in 1..Len(front) : front[i] = list[Len(list)] THEN front ELSE Append(front, list[Len(list)])

(* lines 37-39 *)
SetDebug(h, cacheState) ==
  IF ~HHas(h, "x-magento-cache-debug") THEN HSet(h, "x-magento-cache-debug", StatusText(cacheState)) ELSE h

(* lines 43-44 *)
SetGrace(h, cacheState) ==
  IF cacheState = "STALE" THEN HSet(h, "x-fpc-grace", T_normal)
  ELSE IF cacheState = "UNCACHEABLE" THEN HDelete(h, "x-fpc-grace")
  ELSE h

(* lines 46-50 *)
ForceNoStore(h, isStatic) ==
  IF ~isStatic /\ (HGet(h, "cache-control") = <<>>
                   \/ ~includes(toLowerCase(HGet(h, "cache-control")), T_private))
  THEN HSet(HSet(HSet(h, "pragma", T_noCache), "expires", T_minusOne), "cache-control", T_forcedCacheControl)
  ELSE h

(* line 52 *)
DropAge(h) == IF ~HHas(h, "x-magento-debug") THEN HDelete(h, "age") ELSE h

(* lines 35 and 58-60: the state's claim is pushed first, so the list is never empty *)
SetClaims(h, cfg, cacheState, claims) ==
  IF cfg.returnClaims THEN HSet(h, "x-apo-claims", Dedup(Append(claims, ClaimOf(cacheState)))) ELSE h

(* lines 31-60: the headers of the finalized response *)
FinalHeaders(h, ctx, cfg, cacheState, claims) ==
  SetClaims(HDeleteAll(DropAge(ForceNoStore(SetGrace(HSet(SetDebug(h, cacheState),
                                                          "x-fpc-cache", StatusText(cacheState)),
                                                     cacheState),
                                            ctx.isStatic)),
                       removeHeaders),
            cfg, cacheState, claims)

(* lines 62-79: the body that goes with the finalized headers *)
FinalBody(body, ctx, cfg, contentType) ==
  IF ctx.request.method = "HEAD" THEN <<>>
  ELSE IF /\ cfg.replaceOriginLinks /\ cfg.originHost # <<>>
          /\ \E t \in {T_html, T_css, T_js, T_json} : includes(contentType, t)
       THEN replaceOriginLinks(body, ctx, cfg)
  ELSE body

Finalized(response, ctx, cfg, headers) ==
  [ status |-> response.status,
    statusText |-> response.statusText,
    headers |-> headers,
    body |-> FinalBody(response.body, ctx, cfg, HGet(headers, "content-type")) ]

finalizeResponse(response, ctx, cfg, cacheState, claims) ==
  Finalized(response, ctx, cfg, FinalHeaders(response.headers, ctx, cfg, cacheState, claims))

(* ------------------------------------------------------------------ *)
(* Record store helpers (cache.ts)                                     *)
(* ------------------------------------------------------------------ *)
NoRecord == [state |-> "none"]

(* KVNamespace get / put / delete *)
KvGet(kv, key) == IF key \in DOMAIN kv THEN kv[key].record ELSE NoRecord

KvPut(kv, key, entry) == [k \in (DOMAIN kv) \cup {key} |-> IF k = key THEN entry ELSE kv[k]]

KvDelete_keep(kv, key) == kv

KvDelete(kv, key) == [k \in (DOMAIN kv) \ {key} |-> kv[k]]

Max(a, b) == IF a >= b THEN a ELSE b

CeilDiv(a, b) == IF a >= 0 THEN (a + b - 1) \div b ELSE -((-a) \div b)

MIN_TTL == 60

StoreEntry(record, ttlSeconds) == [record |-> record, expirationTtl |-> ttlSeconds]

writeCacheRecord_keepExisting(kv, cacheKey, record, t) ==
  IF cacheKey \in DOMAIN kv THEN kv
  ELSE KvPut(kv, cacheKey, StoreEntry(record, MIN_TTL))

writeCacheRecord(kv, cacheKey, record, t) ==
  LET until == IF record.state = "cache" /\ record.staleUntil # 0 THEN record.staleUntil ELSE record.expires
      ttlSeconds == Max(MIN_TTL, CeilDiv(until - t, 1000))
  IN KvPut(kv, cacheKey, StoreEntry(record, ttlSeconds))

storeHitForPass_cacheFloor(kv, cacheKey, cfg, t) ==
  LET ttlSeconds == Max(MIN_TTL, cfg.hitForPassSeconds)
      record == [state |-> "pass", expires |-> t + ttlSeconds * 1000]
  IN KvPut(kv, cacheKey, StoreEntry(record, ttlSeconds))

storeHitForPass(kv, cacheKey, cfg, t) ==
  LET ttlSeconds == Max(1, cfg.hitForPassSeconds)
      record == [state |-> "pass", expires |-> t + ttlSeconds * 1000]
  IN KvPut(kv, cacheKey, StoreEntry(record, ttlSeconds))

(* cache.ts: the headers buildCachedResponse sets on the stored ones *)
GraceIfStale(h, status) == IF status = "STALE" THEN HSet(h, "x-fpc-grace", T_normal) ELSE h

CachedHeaders(h, status) ==
  HSet(GraceIfStale(HSet(h, "x-fpc-cache", StatusText(status)), status),
       "x-magento-cache-debug",
       IF status = "HIT" \/ status = "STALE" THEN StatusText("HIT") ELSE StatusText(status))

buildCachedResponse_defaultStatus(record, ctx, cfg, status, claims) ==
  finalizeResponse([ status |-> 200,
                     statusText |-> record.statusText,
                     headers |-> CachedHeaders(record.headers, status),
                     body |-> IF ctx.request.method = "HEAD" THEN <<>> ELSE record.body ],
                   ctx, cfg, status, claims)

buildCachedResponse(record, ctx, cfg, status, claims) ==
  finalizeResponse([ status |-> IF record.status # 0 THEN record.status ELSE 200,
                     statusText |-> record.statusText,
                     headers |-> CachedHeaders(record.headers, status),
                     body |-> IF ctx.request.method = "HEAD" THEN <<>> ELSE record.body ],
                   ctx, cfg, status, claims)

(* ------------------------------------------------------------------ *)
(* Origin fetch and cacheability pipeline (origin.ts)                  *)
(* ------------------------------------------------------------------ *)
Digits == <<"0", "1", "2", "3", "4", "5", "6", "7", "8", "9">>

IsDigit(c) == \E i \in 1..Len(Digits) : Digits[i] = c

DigitValue(c) == Min({i \in 1..Len(Digits) : Digits[i] = c}) - 1

RECURSIVE parseInt(_)
parseInt(digits) ==
  IF digits = <<>> THEN 0
  ELSE parseInt(SubSeq(digits, 1, Len(digits) - 1)) * 10 + DigitValue(digits[Len(digits)])

(* config.ts envInt: parseInt(val, 10) of a set variable, the fallback *)
(* for an unset or empty one.  parseInt reads a leading minus sign.    *)
ParseInt10(val) == IF Head(val) = "-" THEN 0 - parseInt(Tail(val)) ELSE parseInt(val)

envInt(val, fallback) == IF val # <<>> THEN ParseInt10(val) ELSE fallback

(* the first match of /<directive>(\d+)/i, as the run of digits matched, or <<>> *)
(* the digits of lc from position from up to the first character that is not a digit *)
DigitRun(lc, from) ==
  SubSeq(lc, from, Min({j \in from..(Len(lc) + 1) : j = Len(lc) + 1 \/ ~IsDigit(lc[j])}) - 1)

FirstRun(lc, n, starts) == IF starts = {} THEN <<>> ELSE DigitRun(lc, Min(starts) + n)

MatchIn(lc, n, directive) ==
  FirstRun(lc, n, {i \in 1..(Len(lc) - n) : SubSeq(lc, i, i + n - 1) = directive /\ IsDigit(lc[i + n])})

MatchDirective(cacheControl, directive) == MatchIn(toLowerCase(cacheControl), Len(directive), directive)

(* lines 293-299: s-maxage is looked at before max-age *)
FirstMatch(sMaxAgeMatch, maxAgeMatch, cfg) ==
  IF sMaxAgeMatch # <<>> THEN parseInt(sMaxAgeMatch)
  ELSE IF maxAgeMatch # <<>> THEN parseInt(maxAgeMatch)
  ELSE cfg.defaultTtl

deriveTtl(cacheControl, cfg) ==
  IF ~cfg.respectCacheControl \/ cacheControl = <<>> THEN cfg.defaultTtl
  ELSE FirstMatch(MatchDirective(cacheControl, T_sMaxage), MatchDirective(cacheControl, T_maxAge), cfg)

skipKeys == <<"age", "x-powered-by", "server", "via", "x-varnish", "link">>

sanitizeHeaders_keepAll(headers) == headers

sanitizeHeaders(headers) == HDeleteAll(headers, skipKeys)

(* origin.ts lines 16-38: the target of the origin request.  The host  *)
(* of ORIGIN_HOST replaces the request host when one is configured;    *)
(* ports and the protocol are outside the modelled url.                *)
TargetUrl(url, originHost) ==
  IF originHost # <<>> THEN [url EXCEPT !.hostname = Split(originHost, ":")[1]] ELSE url

(* line 50 *)
CookieName(piece) == toLowerCase(trim(Split(piece, "=")[1]))

(* lines 45-54: the pieces of the Cookie header that are kept *)
KeptCookies(pieces, cfg) ==
  SelectSeq(pieces,
            LAMBDA piece :
              \/ \E i \in 1..Len(cfg.cacheableCookieNames) :
                    CookieName(piece) = toLowerCase(cfg.cacheableCookieNames[i])
              \/ cfg.cacheLoggedIn /\ CookieName(piece) = L_phpsessid)

(* lines 40-64: the Cookie header of the origin request; <<>> is none *)
OriginCookie(ctx, cfg) ==
  IF ctx.cookieHeader # <<>> /\ ~ctx.isBypassed
  THEN IF ctx.isStatic THEN <<>>
       ELSE Join(KeptCookies(TrimAll(Split(ctx.cookieHeader, ";")), cfg), <<";", " ">>)
  ELSE ctx.cookieHeader

buildOriginRequest_originalUrl(ctx, cfg) ==
  [method |-> ctx.request.method, url |-> TargetUrl(UrlOf(ctx.request), cfg.originHost),
   cookie |-> OriginCookie(ctx, cfg)]

(* origin.ts lines 12-72 *)
buildOriginRequest(ctx, cfg) ==
  [method |-> ctx.request.method, url |-> TargetUrl(ctx.url, cfg.originHost),
   cookie |-> OriginCookie(ctx, cfg)]

(* runTransformCacheKey: each plugin with the hook maps the key, in     *)
(* registration order.  A hook is modelled by the suffix it appends.    *)
RECURSIVE runTransformCacheKey(_, _)
runTransformCacheKey(plugins, key) ==
  IF plugins = <<>> THEN key
  ELSE runTransformCacheKey(Tail(plugins),
                            IF Head(plugins).transformCacheKey THEN key \o Head(plugins).keySuffix ELSE key)

(* runTransformResponse: every plugin with the hook maps the response, *)
(* in registration order, each on the previous one's output.  A hook   *)
(* is modelled by the tag it appends to the X-Transformed header.      *)
RECURSIVE runTransformResponse(_, _)
runTransformResponse(plugins, response) ==
  IF plugins = <<>> THEN response
  ELSE runTransformResponse(Tail(plugins),
         IF Head(plugins).transformResponse
         THEN [response EXCEPT !.headers = HSet(@, "x-transformed",
                                                HGet(response.headers, "x-transformed") \o Head(plugins).tag)]
         ELSE response)

(* runValidateCacheHit: the hooks run in registration order and the    *)
(* first rejection wins; verdicts[i] is what plugin i's hook returns.  *)
runValidateCacheHit(plugins, verdicts) ==
  \A i \in 1..Len(plugins) : plugins[i].validateCacheHit => verdicts[i]

(* runShouldCache: the first result that is false or hit-for-pass.     *)
runShouldCache(plugins, results) ==
  LET stops == {i \in 1..Len(plugins) : plugins[i].shouldCache /\ results[i] # "true"}
  IN IF stops = {} THEN "true" ELSE results[Min(stops)]

Skip(response, reason) ==
  [response |-> response, cacheResult |-> NoRecord, skipCache |-> TRUE, uncacheableReason |-> reason]

(* lines 138-150: the record built from the response at time t *)
CacheRecordOf(response, headers, expires, cfg) ==
  [ state |-> "cache", status |-> response.status, statusText |-> response.statusText,
    headers |-> sanitizeHeaders(headers), body |-> response.body,
    expires |-> expires, staleUntil |-> expires + cfg.graceSeconds * 1000 ]

(* lines 109-110 *)
TtlSeconds(derived, cfg) == IF derived <= 0 THEN cfg.defaultTtl ELSE derived

(* line 95 *)
DropSetCookie(headers) ==
  IF HGet(headers, "set-cookie") # <<>> THEN HDelete(headers, "set-cookie") ELSE headers

(* lines 105-107 *)
KeepCacheControl(headers, cacheControl) ==
  IF HGet(headers, "x-magento-debug") # <<>> THEN HSet(headers, "x-magento-cache-control", cacheControl)
  ELSE headers

Cacheability_passFirst(response, ctx, cfg, pluginDecision, t, cacheControl, surrogate, vary, headers) ==
  IF \/ /\ cfg.respectPrivateNoCache
        /\ \/ includes(toLowerCase(cacheControl), T_noStore)
           \/ includes(toLowerCase(cacheControl), T_noCache)
           \/ includes(toLowerCase(surrogate), T_noStore)
     \/ vary = T_star
    THEN Skip(response, "hit-for-pass")
  ELSE IF (response.status # 200 /\ response.status # 404) \/ includes(toLowerCase(cacheControl), T_private)
    THEN Skip(response, "status")
  ELSE IF ~\E i \in 1..Len(cfg.cacheableMimeTypes) :
              includes(toLowerCase(HGet(headers, "content-type")), toLowerCase(cfg.cacheableMimeTypes[i]))
    THEN Skip(response, "content-type")
  ELSE IF BodyLength(response.body) < 3 THEN Skip(response, "body-too-small")
  ELSE IF /\ ctx.isGraphql /\ ctx.magentoCacheId # <<>>
          /\ HGet(headers, "x-magento-cache-id") # <<>>
          /\ HGet(headers, "x-magento-cache-id") # ctx.magentoCacheId
    THEN Skip(response, "graphql-mismatch")
  ELSE IF pluginDecision = "false" THEN Skip(response, "plugin-blocked")
  ELSE IF pluginDecision = "hit-for-pass" THEN Skip(response, "hit-for-pass")
  ELSE [ response |-> response,
         cacheResult |-> CacheRecordOf(response, KeepCacheControl(headers, cacheControl),
                                       t + TtlSeconds(deriveTtl(cacheControl, cfg), cfg) * 1000, cfg),
         skipCache |-> FALSE,
         uncacheableReason |-> "" ]

(* lines 85-156 on the headers read at lines 79-83; headers has lost Set-Cookie *)
Cacheability(response, ctx, cfg, pluginDecision, t, cacheControl, surrogate, vary, headers) ==
  IF (response.status # 200 /\ response.status # 404) \/ includes(toLowerCase(cacheControl), T_private)
    THEN Skip(response, "status")
  ELSE IF \/ /\ cfg.respectPrivateNoCache
             /\ \/ includes(toLowerCase(cacheControl), T_noStore)
                \/ includes(toLowerCase(cacheControl), T_noCache)
                \/ includes(toLowerCase(surrogate), T_noStore)
          \/ vary = T_star
    THEN Skip(response, "hit-for-pass")
  ELSE IF ~\E i \in 1..Len(cfg.cacheableMimeTypes) :
              includes(toLowerCase(HGet(headers, "content-type")), toLowerCase(cfg.cacheableMimeTypes[i]))
    THEN Skip(response, "content-type")
  ELSE IF BodyLength(response.body) < 3 THEN Skip(response, "body-too-small")
  ELSE IF /\ ctx.isGraphql /\ ctx.magentoCacheId # <<>>
          /\ HGet(headers, "x-magento-cache-id") # <<>>
          /\ HGet(headers, "x-magento-cache-id") # ctx.magentoCacheId
    THEN Skip(response, "graphql-mismatch")
  ELSE IF pluginDecision = "false" THEN Skip(response, "plugin-blocked")
  ELSE IF pluginDecision = "hit-for-pass" THEN Skip(response, "hit-for-pass")
  ELSE [ response |-> response,
         cacheResult |-> CacheRecordOf(response, KeepCacheControl(headers, cacheControl),
                                       t + TtlSeconds(deriveTtl(cacheControl, cfg), cfg) * 1000, cfg),
         skipCache |-> FALSE,
         uncacheableReason |-> "" ]

(* fetchCacheableResponse after the origin has answered with response; *)
(* t is Date.now() when the record is built.  The store write of lines *)
(* 152-154 is the separate step InnerWrite.                            *)
fetchCacheableResponse(response, ctx, cfg, pluginDecision, t) ==
  Cacheability(response, ctx, cfg, pluginDecision, t,
               HGet(response.headers, "cache-control"),
               HGet(response.headers, "surrogate-control"),
               HGet(response.headers, "vary"),
               DropSetCookie(response.headers))

(* fetchStreamingResponse (lines 178-288) after the origin has answered *)
(* with response: what its background promise writes under the key    *)
(* once the teed body has been read at time t: the cache-variant       *)
(* record, the hit-for-pass marker of lines 198-204, or nothing.       *)
(* headers still holds Set-Cookie; no plugin hook runs on this path.   *)
Streamed(write, record) == [write |-> write, cacheResult |-> record]

StreamCacheability_noBodyCheck(response, ctx, cfg, t, cacheControl, surrogate, vary, headers) ==
  IF (response.status # 200 /\ response.status # 404) \/ includes(toLowerCase(cacheControl), T_private)
    THEN Streamed("none", NoRecord)
  ELSE IF \/ /\ cfg.respectPrivateNoCache
             /\ \/ includes(toLowerCase(cacheControl), T_noStore)
                \/ includes(toLowerCase(cacheControl), T_noCache)
                \/ includes(toLowerCase(surrogate), T_noStore)
          \/ vary = T_star
    THEN Streamed(IF ctx.cacheKey # <<>> THEN "pass" ELSE "none", NoRecord)
  ELSE IF ~\E i \in 1..Len(cfg.cacheableMimeTypes) :
              includes(toLowerCase(HGet(headers, "content-type")), toLowerCase(cfg.cacheableMimeTypes[i]))
    THEN Streamed("none", NoRecord)
  ELSE IF ctx.cacheKey = <<>> THEN Streamed("none", NoRecord)
  ELSE IF /\ ctx.isGraphql /\ ctx.magentoCacheId # <<>>
          /\ HGet(headers, "x-magento-cache-id") # <<>>
          /\ HGet(headers, "x-magento-cache-id") # ctx.magentoCacheId
    THEN Streamed("none", NoRecord)
  ELSE Streamed("cache", CacheRecordOf(response, DropSetCookie(headers),
                                       t + TtlSeconds(deriveTtl(cacheControl, cfg), cfg) * 1000, cfg))

StreamCacheability(response, ctx, cfg, t, cacheControl, surrogate, vary, headers) ==
  IF (response.status # 200 /\ response.status # 404) \/ includes(toLowerCase(cacheControl), T_private)
    THEN Streamed("none", NoRecord)
  ELSE IF \/ /\ cfg.respectPrivateNoCache
             /\ \/ includes(toLowerCase(cacheControl), T_noStore)
                \/ includes(toLowerCase(cacheControl), T_noCache)
                \/ includes(toLowerCase(surrogate), T_noStore)
          \/ vary = T_star
    THEN Streamed(IF ctx.cacheKey # <<>> THEN "pass" ELSE "none", NoRecord)
  ELSE IF ~\E i \in 1..Len(cfg.cacheableMimeTypes) :
              includes(toLowerCase(HGet(headers, "content-type")), toLowerCase(cfg.cacheableMimeTypes[i]))
    THEN Streamed("none", NoRecord)
  ELSE IF ctx.cacheKey = <<>> \/ BodyLength(response.body) < 3 THEN Streamed("none", NoRecord)
  ELSE IF /\ ctx.isGraphql /\ ctx.magentoCacheId # <<>>
          /\ HGet(headers, "x-magento-cache-id") # <<>>
          /\ HGet(headers, "x-magento-cache-id") # ctx.magentoCacheId
    THEN Streamed("none", NoRecord)
  ELSE Streamed("cache", CacheRecordOf(response, DropSetCookie(headers),
                                       t + TtlSeconds(deriveTtl(cacheControl, cfg), cfg) * 1000, cfg))

fetchStreamingResponse(response, ctx, cfg, t) ==
  StreamCacheability(response, ctx, cfg, t,
                     HGet(response.headers, "cache-control"),
                     HGet(response.headers, "surrogate-control"),
                     HGet(response.headers, "vary"),
                     response.headers)

(* ------------------------------------------------------------------ *)
(* Bounds and inputs                                                   *)
(* ------------------------------------------------------------------ *)
MaxTime == 2000
TickSteps == {1000}

Slots == {1, 2}

HeadersOf(cookie, cacheId, auth, store, ssl, ua, range, accept) ==
  [ cookie |-> cookie, xMagentoCacheId |-> cacheId, authorization |-> auth,
    store |-> store, xStore |-> <<>>, contentCurrency |-> <<>>, xCurrency |-> <<>>,
    cfVisitor |-> ssl, xForwardedProto |-> <<>>, userAgent |-> ua, range |-> range,
    accept |-> accept, xPurgeSecret |-> <<>>, xPurgeAll |-> <<>>, xCacheKey |-> <<>>, vary |-> [n \in {L_geo} |-> <<>>] ]

PlainHeaders == HeadersOf(<<>>, <<>>, <<>>, <<>>, <<>>, <<>>, <<>>, T_html)

Request(method, pathname, search, headers) ==
  [method |-> method, hostname |-> L_host, pathname |-> pathname, search |-> search, headers |-> headers,
   body |-> <<>>]

(* the requests the handler is driven with *)
HandlerRequests ==
  { Request("GET", L_pathP, Q_gclid, PlainHeaders),
    Request("HEAD", L_pathP, Q_a, PlainHeaders),
    Request("POST", L_pathP, Q_a, PlainHeaders) }

OriginResponse(status, statusText, headers, body) ==
  [status |-> status, statusText |-> statusText, headers |-> headers, body |-> body]

H_html == [n \in {"content-type"} |-> T_html]
H_rich == [n \in {"content-type", "set-cookie", "server", "x-magento-tags", "x-custom", "cache-control"} |->
            CASE n = "content-type" -> T_html
              [] n = "set-cookie" -> <<"s", "i", "d", "=", "1">>
              [] n = "server" -> <<"n", "g", "i", "n", "x">>
              [] n = "x-magento-tags" -> <<"c", "a", "t", "_", "p">>
              [] n = "x-custom" -> <<"1">>
              [] OTHER -> <<"m", "a", "x", "-", "a", "g", "e", "=", "2">>]
H_varyStar == [n \in {"content-type", "vary"} |-> IF n = "vary" THEN T_star ELSE T_html]

B_page == <<"a", "b", "c">>
B_links == <<"a", "<origin>", "<css>">>

(* what the origin may answer *)
OriginResponses ==
  { OriginResponse(404, "Not Found", H_html, B_page),
    OriginResponse(200, "OK", H_rich, B_links),
    OriginResponse(200, "OK", H_varyStar, B_page),
    OriginResponse(500, "Internal Server Error", H_varyStar, B_page) }

(* the merged-css-guard plugin, the only registered plugin with veto hooks *)
mergedCssGuardPlugin ==
  [name |-> "merged-css-guard", validateCacheHit |-> TRUE, shouldCache |-> TRUE,
   transformCacheKey |-> FALSE, keySuffix |-> <<>>]

HandlerConfigs ==
  { DEFAULTS,
    [DEFAULTS EXCEPT !.graceSeconds = 0],
    [DEFAULTS EXCEPT !.hitForPassSeconds = 0],
    [DEFAULTS EXCEPT !.respectPrivateNoCache = TRUE, !.respectCacheControl = TRUE],
    [DEFAULTS EXCEPT !.plugins = <<mergedCssGuardPlugin>>],
    [DEFAULTS EXCEPT !.replaceOriginLinks = TRUE, !.originHost = <<"o">>] }

(* ------------------------------------------------------------------ *)
(* State                                                               *)
(* ------------------------------------------------------------------ *)
VARIABLES
  config,   \* the Config built by buildConfig(env)
  now,      \* Date.now(), in milliseconds
  store,    \* env.FPC_CACHE: key -> stored entry (absent keys are outside the domain)
  req,      \* per slot: the fetch handler invocation running in it
  bg,       \* per slot: the revalidation registered through waitUntil
  out,      \* the response most recently returned to a client, with what it was built from
  lastPut,  \* history: key -> the record most recently put under it
  kStage,   \* key pipeline: position of the request under derivation
  kReq,     \* key pipeline: the request
  kCtx,     \* key pipeline: its Context
  kBypass,  \* key pipeline: its BypassResult
  kKey,     \* key pipeline: its cache key
  ttl,      \* record derivation: the record a miss path built, with its creation time
  purge,    \* purge handler: the invocation of handlePurgeRequest
  dec,      \* cacheability decision: one origin response taken through both miss paths
  fin,      \* response finalization: one response taken through finalizeResponse
  hooks,    \* plugin manager: one run of a veto hook over the enabled plugins
  fwd,      \* origin request: the request buildOriginRequest built for one client request
  tee,      \* streaming tee: one run of fetchStreamingResponse and of its background promise
  probe     \* asset guard: the concurrent checkAssetOk calls for one asset url

vars == <<config, now, store, req, bg, out, lastPut, kStage, kReq, kCtx, kBypass, kKey, ttl, purge, dec, fin, hooks,
          fwd, tee, probe>>
handlerVars == <<config, now, store, req, bg, out, lastPut>>
keyVars == <<kStage, kReq, kCtx, kBypass, kKey>>
lastVars == <<fwd, tee, probe>>
auxVars == <<ttl, purge, dec, fin, hooks, lastVars>>
lateVars == <<dec, fin, hooks, lastVars>>

NoResponse == [status |-> 0, statusText |-> "", headers |-> NoHeaders, body |-> <<>>]
NoResult == [response |-> NoResponse, cacheResult |-> NoRecord, skipCache |-> FALSE, uncacheableReason |-> ""]
NoRequest == Request("", <<>>, <<>>, PlainHeaders)
NoContext == [request |-> NoRequest]
NoBypass == [bypass |-> FALSE, reason |-> <<>>]
NoUrl == [hostname |-> <<>>, pathname |-> <<>>, search |-> <<>>]
NoOut == [slot |-> 0, request |-> NoRequest, cacheKey |-> <<>>, path |-> "", record |-> NoRecord,
          now |-> 0, origin |-> NoResponse, response |-> NoResponse, target |-> NoUrl,
          reads |-> 0, fetches |-> 0, puts |-> 0, deletes |-> 0, registered |-> 0]

NoTtl == [stage |-> "off", created |-> 0, record |-> NoRecord]
NoPurge ==
  [ pc |-> "off", request |-> NoRequest, all |-> FALSE, cacheKey |-> <<>>, cursor |-> 0,
    page |-> {}, complete |-> FALSE, totalDeleted |-> 0, lists |-> 0, fetches |-> 0,
    deleted |-> {}, initial |-> {}, concurrent |-> FALSE, response |-> NoResponse, keys |-> <<>>,
    inFlight |-> {}, later |-> {} ]

NoDec == [stage |-> "off"]
NoFin == [stage |-> "off"]
NoHooks == [pc |-> "off"]
NoFwd == [stage |-> "off"]
NoTee == [pc |-> "off"]
NoProbe == [pc |-> "off"]

IdleRequest ==
  [ pc |-> "idle", request |-> NoRequest, ctx |-> NoContext, cacheKey |-> <<>>,
    result |-> NoResult, claims |-> <<>>, path |-> "", target |-> NoUrl,
    reads |-> 0, fetches |-> 0, puts |-> 0, deletes |-> 0, registered |-> 0 ]

IdleTask == [pc |-> "none", request |-> NoRequest, ctx |-> NoContext, cacheKey |-> <<>>, result |-> NoResult,
             fetches |-> 0, puts |-> 0]

(* the Context of the invocation in slot r, and of the revalidation it registered *)
Ctx(r) == req[r].ctx

TaskCtx(r) == bg[r].ctx

(* the guard's verdict depends on asset probes only for an HTML body with a merged stylesheet link *)
HasCssLink(body) == \E i \in 1..Len(body) : body[i] = "<css>"

ValidateVerdicts(record) ==
  { v \in [1..Len(config.plugins) -> BOOLEAN] :
      \A i \in 1..Len(config.plugins) :
        (~v[i]) => /\ config.plugins[i].validateCacheHit
                   /\ record.state = "cache"
                   /\ includes(HGet(record.headers, "content-type"), T_html)
                   /\ HasCssLink(record.body) }

ShouldCacheResults(request, response) ==
  { v \in [1..Len(config.plugins) -> {"true", "hit-for-pass"}] :
      \A i \in 1..Len(config.plugins) :
        (v[i] # "true") => /\ config.plugins[i].shouldCache
                           /\ includes(request.headers.accept, T_html)
                           /\ HasCssLink(response.body) }

SetReq(r, new) == req' = [req EXCEPT ![r] = new]

(* the handler returns response to the client and the invocation ends *)
Return(r, last, record, origin, response) ==
  /\ req' = [req EXCEPT ![r] = IdleRequest]
  /\ out' = [slot |-> r, request |-> last.request, cacheKey |-> last.cacheKey, path |-> last.path,
             record |-> record, now |-> now, origin |-> origin, response |-> response,
             target |-> last.target, reads |-> last.reads, fetches |-> last.fetches, puts |-> last.puts, deletes |-> last.deletes,
             registered |-> last.registered]

(* the handler finalizes the origin's answer it has just fetched and returns it *)
ReturnOrigin(r, answer, cacheState) ==
  Return(r, [req[r] EXCEPT !.fetches = @ + 1, !.target = buildOriginRequest(Ctx(r), config).url],
         NoRecord, answer, finalizeResponse(answer, Ctx(r), config, cacheState, req[r].claims))

(* the origin's answer to the forwarded request: a HEAD request is answered without a body *)
fetchFromOrigin(request, resp) == IF request.method = "HEAD" THEN [resp EXCEPT !.body = <<>>] ELSE resp

(* lines 45-92: the branch the handler takes on the record it read, at time t *)
RecordBranch_inclusive(record, t) ==
  IF record.state = "pass" /\ record.expires >= t THEN "pass"
  ELSE IF record.state = "cache" /\ record.expires >= t THEN "hit"
  ELSE IF record.state = "cache" /\ record.staleUntil # 0 /\ record.staleUntil >= t THEN "stale"
  ELSE "miss"

RecordBranch(record, t) ==
  IF record.state = "pass" /\ record.expires > t THEN "pass"
  ELSE IF record.state = "cache" /\ record.expires > t THEN "hit"
  ELSE IF record.state = "cache" /\ record.staleUntil # 0 /\ record.staleUntil > t THEN "stale"
  ELSE "miss"

(* ------------------------------------------------------------------ *)
(* The fetch handler (index.ts), one action per await                  *)
(* ------------------------------------------------------------------ *)
Init ==
  /\ config \in HandlerConfigs
  /\ now = 0
  /\ store = [k \in {} |-> NoRecord]
  /\ req = [r \in Slots |-> IdleRequest]
  /\ bg = [r \in Slots |-> IdleTask]
  /\ out = NoOut
  /\ lastPut = [k \in {} |-> NoRecord]
  /\ kStage = "off"
  /\ kReq = NoRequest
  /\ kCtx = NoContext
  /\ kBypass = NoBypass
  /\ kKey = <<>>
  /\ ttl = NoTtl
  /\ purge = NoPurge
  /\ dec = NoDec
  /\ fin = NoFin
  /\ hooks = NoHooks
  /\ fwd = NoFwd
  /\ tee = NoTee
  /\ probe = NoProbe

(* lines 28-40: the invocation after the bypass test and the key derivation *)
Keyed(rq, context, bypass, cacheKey) ==
  [IdleRequest EXCEPT
     !.request = rq,
     !.ctx = [context EXCEPT !.isBypassed = bypass, !.cacheKey = cacheKey],
     !.claims = IF bypass THEN Append(context.claims, "bypass") ELSE context.claims,
     !.path = IF bypass THEN "bypass" ELSE "",
     !.cacheKey = cacheKey,
     !.pc = IF bypass THEN "bypassFetch" ELSE "read"]

Bypassed_keyed(rq, context, bypass) ==
  Keyed(rq, context, bypass, runTransformCacheKey(config.plugins, computeCacheKey(context, config)))

Bypassed(rq, context, bypass) ==
  Keyed(rq, context, bypass,
        IF bypass THEN <<>> ELSE runTransformCacheKey(config.plugins, computeCacheKey(context, config)))

Started(rq, context) == Bypassed(rq, context, shouldBypass(context, config).bypass)

(* lines 10-40: context, purge test, early plugin hook, bypass test, cache key *)
Begin(r, rq) ==
  /\ out = NoOut
  /\ req[r].pc = "idle"
  /\ bg[r].pc \in {"none", "done"}
  /\ ~(rq.method = "POST" /\ rq.headers.xPurgeSecret # <<>>)
  /\ SetReq(r, Started(rq, createContext(rq, config)))
  /\ bg' = [bg EXCEPT ![r] = IdleTask]

Start(r, rq) ==
  /\ Begin(r, rq)
  /\ UNCHANGED <<config, now, store, out, lastPut, keyVars, auxVars>>

(* lines 32-33: the bypassed request goes straight to the origin *)
BypassFetch(r, resp) ==
  /\ out = NoOut
  /\ req[r].pc = "bypassFetch"
  /\ ReturnOrigin(r, fetchFromOrigin(req[r].request, resp), "UNCACHEABLE")
  /\ UNCHANGED <<config, now, store, bg, lastPut, keyVars, auxVars>>

(* line 42: the invocation in slot r once readCacheRecord has resolved *)
Read(r) == [req[r] EXCEPT !.reads = @ + 1]

(* lines 45-92: the handler's branch on the record it read *)
Branch(r, record, branch, valid) ==
  IF branch = "pass"
  THEN /\ SetReq(r, [Read(r) EXCEPT !.path = "pass", !.claims = Append(@, "cache:hfp"), !.pc = "passFetch"])
       /\ UNCHANGED <<bg, out>>
  ELSE IF branch = "hit"
  THEN /\ IF valid
          THEN Return(r, [Read(r) EXCEPT !.path = "hit"], record, NoResponse,
                      buildCachedResponse(record, Ctx(r), config, "HIT", req[r].claims))
          ELSE /\ SetReq(r, [Read(r) EXCEPT !.path = "invalid", !.pc = "invalidate"])
               /\ UNCHANGED out
       /\ UNCHANGED bg
  ELSE IF branch = "stale"
  THEN IF valid
       THEN /\ Return(r, [Read(r) EXCEPT !.path = "stale", !.registered = @ + 1], record, NoResponse,
                      buildCachedResponse(record, Ctx(r), config, "STALE", Append(req[r].claims, "cache:stale")))
            /\ bg' = [bg EXCEPT ![r] = [IdleTask EXCEPT !.pc = "fetch",
                                                        !.request = req[r].request,
                                                        !.ctx = req[r].ctx,
                                                        !.cacheKey = req[r].cacheKey]]
       ELSE /\ SetReq(r, [Read(r) EXCEPT !.path = "invalidStale", !.claims = Append(@, "cache:stale"),
                                        !.pc = "invalidate"])
            /\ UNCHANGED <<bg, out>>
  ELSE /\ SetReq(r, [Read(r) EXCEPT !.path = "miss", !.pc = "missFetch"])
       /\ UNCHANGED <<bg, out>>

Classify(r, record, verdicts) ==
  /\ verdicts \in ValidateVerdicts(record)
  /\ Branch(r, record, RecordBranch(record, now), runValidateCacheHit(config.plugins, verdicts))

(* lines 42-92: readCacheRecord resolves, Date.now() is taken and the   *)
(* handler branches on the record's state, running the validateCacheHit *)
(* hooks in the HIT and STALE branches                                  *)
ReadRecord(r, verdicts) ==
  /\ out = NoOut
  /\ req[r].pc = "read"
  /\ Classify(r, KvGet(store, req[r].cacheKey), verdicts)
  /\ UNCHANGED <<config, now, store, lastPut, keyVars, auxVars>>

PassFetch_refreshing(r, resp) ==
  /\ out = NoOut
  /\ req[r].pc = "passFetch"
  /\ store' = storeHitForPass(store, req[r].cacheKey, config, now)
  /\ lastPut' = KvPut(lastPut, req[r].cacheKey, KvGet(store', req[r].cacheKey))
  /\ ReturnOrigin(r, fetchFromOrigin(req[r].request, resp), "UNCACHEABLE")
  /\ UNCHANGED <<config, now, bg, keyVars, auxVars>>

(* lines 49-50: hit-for-pass active *)
PassFetch(r, resp) ==
  /\ out = NoOut
  /\ req[r].pc = "passFetch"
  /\ ReturnOrigin(r, fetchFromOrigin(req[r].request, resp), "UNCACHEABLE")
  /\ UNCHANGED <<config, now, store, bg, lastPut, keyVars, auxVars>>

Invalidate_keep(r) ==
  /\ out = NoOut
  /\ req[r].pc = "invalidate"
  /\ store' = store
  /\ SetReq(r, [req[r] EXCEPT !.deletes = @ + 1, !.claims = Append(@, "cache:invalidated"),
                              !.pc = "invalidFetch"])
  /\ UNCHANGED <<config, now, bg, out, lastPut, keyVars, auxVars>>

(* lines 61-62 and 79-80: a hook declined the record, delete it *)
Invalidate(r) ==
  /\ out = NoOut
  /\ req[r].pc = "invalidate"
  /\ store' = KvDelete(store, req[r].cacheKey)
  /\ SetReq(r, [req[r] EXCEPT !.deletes = @ + 1, !.claims = Append(@, "cache:invalidated"),
                              !.pc = "invalidFetch"])
  /\ UNCHANGED <<config, now, bg, out, lastPut, keyVars, auxVars>>

InvalidFetch_revalidating(r, resp) ==
  /\ out = NoOut
  /\ req[r].pc = "invalidFetch"
  /\ ReturnOrigin(r, fetchFromOrigin(req[r].request, resp), "MISS")
  /\ bg' = [bg EXCEPT ![r] = [IdleTask EXCEPT !.pc = "fetch", !.request = req[r].request,
                                              !.ctx = req[r].ctx, !.cacheKey = req[r].cacheKey]]
  /\ UNCHANGED <<config, now, store, lastPut, keyVars, auxVars>>

(* lines 63-64 and 81-82: fetch fresh after the delete *)
InvalidFetch(r, resp) ==
  /\ out = NoOut
  /\ req[r].pc = "invalidFetch"
  /\ ReturnOrigin(r, fetchFromOrigin(req[r].request, resp), "MISS")
  /\ UNCHANGED <<config, now, store, bg, lastPut, keyVars, auxVars>>

(* the invocation in slot r once its miss-path request has gone to the origin *)
Sent(r) == [req[r] EXCEPT !.fetches = @ + 1, !.target = buildOriginRequest(Ctx(r), config).url]

Fetched_missAlways(r, answer, result) ==
  IF result.cacheResult # NoRecord
  THEN /\ SetReq(r, [Sent(r) EXCEPT !.result = result, !.pc = "innerWrite"])
       /\ UNCHANGED out
  ELSE IF result.skipCache /\ result.uncacheableReason = "hit-for-pass"
  THEN /\ SetReq(r, [Sent(r) EXCEPT !.result = result,
                                  !.claims = Append(@, "cache:hfp-store"), !.pc = "hfpWrite"])
       /\ UNCHANGED out
  ELSE Return(r, [Sent(r) EXCEPT !.result = result], NoRecord, answer,
              finalizeResponse(answer, Ctx(r), config, "MISS", Append(req[r].claims, "cache:skip")))

(* lines 94-106: what the handler does with the FetchResult *)
Fetched(r, answer, result) ==
  IF result.cacheResult # NoRecord
  THEN /\ SetReq(r, [Sent(r) EXCEPT !.result = result, !.pc = "innerWrite"])
       /\ UNCHANGED out
  ELSE IF result.skipCache /\ result.uncacheableReason = "hit-for-pass"
  THEN /\ SetReq(r, [Sent(r) EXCEPT !.result = result,
                                  !.claims = Append(@, "cache:hfp-store"), !.pc = "hfpWrite"])
       /\ UNCHANGED out
  ELSE Return(r, [Sent(r) EXCEPT !.result = result], NoRecord, answer,
              finalizeResponse(answer, Ctx(r), config, "UNCACHEABLE", Append(req[r].claims, "cache:skip")))

Answered(r, answer, results) ==
  /\ results \in ShouldCacheResults(req[r].request, answer)
  /\ Fetched(r, answer, fetchCacheableResponse(answer, Ctx(r), config,
                                               runShouldCache(config.plugins, results), now))

(* line 94: fetchCacheableResponse up to its store write; lines 99-106 *)
(* when nothing is to be written                                        *)
MissFetch(r, resp, results) ==
  /\ out = NoOut
  /\ req[r].pc = "missFetch"
  /\ Answered(r, fetchFromOrigin(req[r].request, resp), results)
  /\ UNCHANGED <<config, now, store, bg, lastPut, keyVars, auxVars>>

(* origin.ts lines 152-154: fetchCacheableResponse writes the record itself *)
InnerWrite(r) ==
  /\ out = NoOut
  /\ req[r].pc = "innerWrite"
  /\ store' = writeCacheRecord(store, req[r].cacheKey, req[r].result.cacheResult, now)
  /\ lastPut' = KvPut(lastPut, req[r].cacheKey, req[r].result.cacheResult)
  /\ SetReq(r, [req[r] EXCEPT !.puts = @ + 1, !.pc = "outerWrite"])
  /\ UNCHANGED <<config, now, bg, out, keyVars, auxVars>>

(* lines 96-98 and 106: the handler writes the returned record again and answers MISS *)
OuterWrite(r) ==
  /\ out = NoOut
  /\ req[r].pc = "outerWrite"
  /\ store' = writeCacheRecord(store, req[r].cacheKey, req[r].result.cacheResult, now)
  /\ lastPut' = KvPut(lastPut, req[r].cacheKey, req[r].result.cacheResult)
  /\ Return(r, [req[r] EXCEPT !.puts = @ + 1], NoRecord, req[r].result.response,
            finalizeResponse(req[r].result.response, Ctx(r), config, "MISS",
                             Append(req[r].claims, "cache:write")))
  /\ UNCHANGED <<config, now, bg, keyVars, auxVars>>

(* lines 99-101 and 106: hit-for-pass determination *)
HfpWrite(r) ==
  /\ out = NoOut
  /\ req[r].pc = "hfpWrite"
  /\ store' = storeHitForPass(store, req[r].cacheKey, config, now)
  /\ lastPut' = KvPut(lastPut, req[r].cacheKey, KvGet(store', req[r].cacheKey))
  /\ Return(r, [req[r] EXCEPT !.puts = @ + 1], NoRecord, req[r].result.response,
            finalizeResponse(req[r].result.response, Ctx(r), config, "UNCACHEABLE", req[r].claims))
  /\ UNCHANGED <<config, now, bg, keyVars, auxVars>>

Refetched(r, result) ==
  bg' = [bg EXCEPT ![r] = [@ EXCEPT !.fetches = @ + 1, !.result = result,
                                    !.pc = IF result.cacheResult # NoRecord THEN "write" ELSE "done"]]

Revalidated(r, answer, results) ==
  /\ results \in ShouldCacheResults(bg[r].request, answer)
  /\ Refetched(r, fetchCacheableResponse(answer, TaskCtx(r), config,
                                         runShouldCache(config.plugins, results), now))

(* origin.ts lines 159-167: the revalidation fetches through the same pipeline *)
RevalidateFetch(r, resp, results) ==
  /\ out = NoOut
  /\ bg[r].pc = "fetch"
  /\ Revalidated(r, fetchFromOrigin(bg[r].request, resp), results)
  /\ UNCHANGED <<config, now, store, req, out, lastPut, keyVars, auxVars>>

RevalidateWrite_discard(r) ==
  /\ out = NoOut
  /\ bg[r].pc = "write"
  /\ bg' = [bg EXCEPT ![r] = [@ EXCEPT !.puts = @ + 1, !.result = NoResult, !.pc = "done"]]
  /\ UNCHANGED <<config, now, store, req, out, lastPut, keyVars, auxVars>>

RevalidateWrite(r) ==
  /\ out = NoOut
  /\ bg[r].pc = "write"
  /\ store' = writeCacheRecord(store, bg[r].cacheKey, bg[r].result.cacheResult, now)
  /\ lastPut' = KvPut(lastPut, bg[r].cacheKey, bg[r].result.cacheResult)
  /\ bg' = [bg EXCEPT ![r] = [@ EXCEPT !.puts = @ + 1, !.result = NoResult, !.pc = "done"]]
  /\ UNCHANGED <<config, now, req, out, keyVars, auxVars>>

(* the client receives the response *)
Deliver ==
  /\ out # NoOut
  /\ out' = NoOut
  /\ UNCHANGED <<config, now, store, req, bg, lastPut, keyVars, auxVars>>

(* time passes *)
Tick(d) ==
  /\ out = NoOut
  /\ now + d <= MaxTime
  /\ now' = now + d
  /\ UNCHANGED <<config, store, req, bg, out, lastPut, keyVars, auxVars>>

Next ==
  \/ \E r \in Slots, rq \in HandlerRequests : Start(r, rq)
  \/ \E r \in Slots, resp \in OriginResponses : BypassFetch(r, resp)
  \/ \E r \in Slots, v \in [1..Len(config.plugins) -> BOOLEAN] : ReadRecord(r, v)
  \/ \E r \in Slots, resp \in OriginResponses : PassFetch(r, resp)
  \/ \E r \in Slots : Invalidate(r)
  \/ \E r \in Slots, resp \in OriginResponses : InvalidFetch(r, resp)
  \/ \E r \in Slots, resp \in OriginResponses,
        v \in [1..Len(config.plugins) -> {"true", "hit-for-pass"}] : MissFetch(r, resp, v)
  \/ \E r \in Slots : InnerWrite(r)
  \/ \E r \in Slots : OuterWrite(r)
  \/ \E r \in Slots : HfpWrite(r)
  \/ \E r \in Slots, resp \in OriginResponses,
        v \in [1..Len(config.plugins) -> {"true", "hit-for-pass"}] : RevalidateFetch(r, resp, v)
  \/ \E r \in Slots : RevalidateWrite(r)
  \/ Deliver
  \/ \E d \in TickSteps : Tick(d)

Spec == Init /\ [][Next]_vars

(* ------------------------------------------------------------------ *)
(* The key pipeline on its own: createContext, shouldBypass and        *)
(* computeCacheKey applied to one request drawn from KeyRequests       *)
(* ------------------------------------------------------------------ *)
KeyPaths == {L_pathP, L_pathGraphql, L_pathInj}
KeySearches == {<<>>, Q_ab, Q_ba, Q_a12, Q_a21, Q_gclid, Q_GCLID, Q_utm, Q_inj, Q_Ab}
KeyCookies == {<<>>, C_vary1, C_vary2, C_other}
KeyCacheIds == {<<>>, L_x, L_idInj}
KeyAuths == {<<>>, A_bearer, A_bearerLc, A_basic}
KeyStores == {<<>>, L_s, L_storeInj}
KeyMisc ==
  { [method |-> "GET", ssl |-> <<>>, ua |-> <<>>, range |-> <<>>, currency |-> <<>>, geo |-> <<>>],
    [method |-> "GET", ssl |-> L_https, ua |-> UA_phone, range |-> <<>>, currency |-> L_usd, geo |-> L_de],
    [method |-> "GET", ssl |-> <<>>, ua |-> UA_ipad, range |-> <<>>, currency |-> <<>>, geo |-> <<>>],
    [method |-> "HEAD", ssl |-> <<>>, ua |-> UA_desk, range |-> <<>>, currency |-> <<>>, geo |-> <<>>] }

KeyRequest(misc, pathname, search, cookie, cacheId, auth, storeHeader) ==
  Request(misc.method, pathname, search,
          [HeadersOf(cookie, cacheId, auth, storeHeader, misc.ssl, misc.ua, misc.range, T_html)
             EXCEPT !.contentCurrency = misc.currency, !.vary = [n \in {L_geo} |-> misc.geo]])

KeyRequests ==
  { KeyRequest(m, p, q, c, id, a, s) :
      m \in KeyMisc, p \in KeyPaths, q \in KeySearches, c \in KeyCookies,
      id \in KeyCacheIds, a \in KeyAuths, s \in KeyStores }
  \cup
  { Request(method, p, <<>>, [PlainHeaders EXCEPT !.range = rg]) :
      method \in {"GET", "HEAD", "POST"}, p \in {L_pathP, L_pathStatic, L_pathCart, L_pathHealth},
      rg \in {<<>>, <<"b">>} }

KeyConfigs == {DEFAULTS, [DEFAULTS EXCEPT !.varyOnDeviceType = FALSE, !.varyHeaders = <<L_geo>>]}

KeyInit ==
  /\ config \in KeyConfigs
  /\ now = 0
  /\ store = [k \in {} |-> NoRecord]
  /\ req = [r \in Slots |-> IdleRequest]
  /\ bg = [r \in Slots |-> IdleTask]
  /\ out = NoOut
  /\ lastPut = [k \in {} |-> NoRecord]
  /\ kStage = "request"
  /\ kReq \in KeyRequests
  /\ kCtx = NoContext
  /\ kBypass = NoBypass
  /\ kKey = <<>>
  /\ ttl = NoTtl
  /\ purge = NoPurge
  /\ dec = NoDec
  /\ fin = NoFin
  /\ hooks = NoHooks
  /\ fwd = NoFwd
  /\ tee = NoTee
  /\ probe = NoProbe

KeyCreateContext ==
  /\ kStage = "request"
  /\ kCtx' = createContext(kReq, config)
  /\ kStage' = "context"
  /\ UNCHANGED <<handlerVars, auxVars, kReq, kBypass, kKey>>

KeyShouldBypass ==
  /\ kStage = "context"
  /\ kBypass' = shouldBypass(kCtx, config)
  /\ kStage' = IF kBypass'.bypass THEN "bypassed" ELSE "cacheable"
  /\ UNCHANGED <<handlerVars, auxVars, kReq, kCtx, kKey>>

KeyComputeCacheKey ==
  /\ kStage = "cacheable"
  /\ kKey' = computeCacheKey(kCtx, config)
  /\ kStage' = "keyed"
  /\ UNCHANGED <<handlerVars, auxVars, kReq, kCtx, kBypass>>

KeyNext == KeyCreateContext \/ KeyShouldBypass \/ KeyComputeCacheKey

KeySpec == KeyInit /\ [][KeyNext]_vars

(* ------------------------------------------------------------------ *)
(* Properties of the record state machine                              *)
(* ------------------------------------------------------------------ *)
CacheStatus(response) == HGet(response.headers, "x-fpc-cache")

S_HIT == <<"H", "I", "T">>
S_STALE == <<"S", "T", "A", "L", "E">>
S_MISS == <<"M", "I", "S", "S">>
S_UNCACHEABLE == <<"U", "N", "C", "A", "C", "H", "E", "A", "B", "L", "E">>

(* headers the engine removes from, or forces on, every response *)
EngineHeaders ==
  { "x-fpc-cache", "x-fpc-grace", "x-magento-cache-debug", "x-apo-claims",
    "pragma", "expires", "cache-control",
    "age", "x-magento-debug", "x-magento-tags", "x-pool", "x-powered-by", "server", "x-varnish", "via", "link" }

SameHeaders(response, record) ==
  \A n \in ((DOMAIN response.headers) \cup (DOMAIN record.headers)) \ EngineHeaders :
     HGet(response.headers, n) = HGet(record.headers, n)

Relinked(body) == [i \in 1..Len(body) |-> IF body[i] = "<origin>" THEN "<request>" ELSE body[i]]

(* the body a served record reaches the client with *)
ServedBody(record, request) ==
  IF request.method = "HEAD" THEN <<>>
  ELSE IF config.replaceOriginLinks /\ config.originHost # <<>> /\ config.originHost # request.hostname
       THEN Relinked(record.body)
       ELSE record.body

NoValidateHooks == \A i \in 1..Len(config.plugins) : ~config.plugins[i].validateCacheHit

(* slot r's handler resumes from its store read in this step *)
Reads(r) == req[r].pc = "read" /\ req'[r].pc # "read"

ReadOf(r) == KvGet(store, req[r].cacheKey)

Returned(r) == out' # NoOut /\ out'.slot = r

(* a record served in this step either reaches the client or, when a hook rejects it, is invalidated *)
ServesOrInvalidates(r, status) ==
  /\ \/ /\ Returned(r)
        /\ out'.record = ReadOf(r)
        /\ CacheStatus(out'.response) = status
        /\ out'.fetches = 0
     \/ /\ out' = NoOut
        /\ req'[r].pc = "invalidate"
  /\ NoValidateHooks => Returned(r)

StaleServed == out.record.state = "cache" /\ out.record.expires <= out.now

HitServed == out.record.state = "cache" /\ out.now < out.record.expires

(* an origin response every stage of the cacheability pipeline lets through *)
PlainlyCacheable(response) ==
  /\ response.status \in {200, 404}
  /\ ~includes(toLowerCase(HGet(response.headers, "cache-control")), T_private)
  /\ ~includes(toLowerCase(HGet(response.headers, "cache-control")), T_noStore)
  /\ ~includes(toLowerCase(HGet(response.headers, "cache-control")), T_noCache)
  /\ HGet(response.headers, "vary") # T_star
  /\ includes(toLowerCase(HGet(response.headers, "content-type")), T_html)
  /\ BodyLength(response.body) >= 3
  /\ ~HasCssLink(response.body) \/ \A i \in 1..Len(config.plugins) : ~config.plugins[i].shouldCache

StaleStep ==
  \A r \in Slots :
    /\ (Reads(r) /\ ReadOf(r).state = "cache" /\ ReadOf(r).expires <= now /\ now < ReadOf(r).staleUntil)
         => /\ ServesOrInvalidates(r, S_STALE)
            /\ Returned(r) => /\ out'.registered = 1
                              /\ bg'[r].pc = "fetch"
                              /\ bg'[r].cacheKey = req[r].cacheKey
    /\ (bg[r].pc = "fetch" /\ bg'[r].pc # "fetch")
         => /\ bg'[r].fetches = 1
            /\ PlainlyCacheable(bg'[r].result.response) => bg'[r].pc = "write"
            /\ bg'[r].pc = "write" => bg'[r].result.cacheResult.state = "cache"
    /\ (bg[r].pc = "write" /\ bg'[r].pc # "write")
         => /\ KvGet(store', bg[r].cacheKey) = bg[r].result.cacheResult
            /\ bg'[r].fetches = 1

StaleInv(body(_, _)) ==
  /\ StaleServed => /\ CacheStatus(out.response) = S_STALE
                    /\ out.response.body = body(out.record, out.request)
                    /\ out.fetches = 0
                    /\ out.registered = 1
                    /\ bg[out.slot].pc = "fetch"
                    /\ bg[out.slot].fetches = 0
  /\ \A r \in Slots : bg[r].fetches <= 1

StoredBody(record, request) == record.body

(* C1: a stale record accepted by the hooks is answered from the store  *)
(* with status STALE before any origin fetch (the stored body for GET,  *)
(* with origin links rewritten when that is enabled; no body for HEAD), *)
(* registers one revalidation that fetches the origin once, and a       *)
(* cacheable revalidation result overwrites the record under the key.   *)
C1_StaleWhileRevalidate == [](StaleInv(ServedBody)) /\ [][StaleStep]_vars

C1_Witness ==
  /\ \E r \in Slots : /\ bg[r].pc = "done" /\ bg[r].puts = 1
                      /\ KvGet(store, bg[r].cacheKey).state = "cache"
                      /\ KvGet(store, bg[r].cacheKey).expires > now
  /\ now > 0

(* C1 as stated: the stale answer always carries the stored body *)
C1_Original == StaleInv(StoredBody)

HitInv(body(_, _)) ==
  HitServed => /\ CacheStatus(out.response) = S_HIT
               /\ out.response.status = out.record.status
               /\ out.response.body = body(out.record, out.request)
               /\ SameHeaders(out.response, out.record)
               /\ out.fetches = 0

HitStep ==
  \A r \in Slots :
    (Reads(r) /\ ReadOf(r).state = "cache" /\ now < ReadOf(r).expires)
      => /\ ServesOrInvalidates(r, S_HIT)
         /\ bg' = bg

(* C2: a fresh record accepted by the hooks is answered HIT with the    *)
(* stored status and headers (engine headers apart) and, for GET, the   *)
(* stored body with origin links rewritten when that is enabled, no     *)
(* body for HEAD; the request fetches nothing from the origin.          *)
C2_FreshHit == [](HitInv(ServedBody)) /\ [][HitStep]_vars

C2_Witness ==
  /\ HitServed
  /\ out.record.status = 200
  /\ HGet(out.record.headers, "x-custom") # <<>>
  /\ out.request.method = "GET"

(* C2 as stated: the HIT carries exactly the stored body *)
C2_Original == HitInv(StoredBody)

BoundaryInv ==
  /\ CacheStatus(out.response) = S_HIT => HitServed
  /\ CacheStatus(out.response) = S_STALE => StaleServed /\ out.now < out.record.staleUntil
  /\ out.record.state = "cache" => CacheStatus(out.response) \in {S_HIT, S_STALE}

BoundaryStep ==
  \A r \in Slots :
    (Reads(r) /\ ReadOf(r).state = "cache")
      => /\ now >= ReadOf(r).expires /\ now >= ReadOf(r).staleUntil
              => out' = NoOut /\ req'[r].pc = "missFetch"
         /\ now = ReadOf(r).expires
              => (req'[r].pc = "missFetch" <=> ReadOf(r).staleUntil <= ReadOf(r).expires)
         /\ now < ReadOf(r).staleUntil => req'[r].pc # "missFetch"

(* C3: a record is served HIT only while now < expires, STALE only      *)
(* while expires <= now < staleUntil, and from staleUntil on the        *)
(* request takes the miss path; at now = expires the record is stale    *)
(* when staleUntil > expires and expired otherwise.                     *)
C3_Boundaries == []BoundaryInv /\ [][BoundaryStep]_vars

C3_Witness == StaleServed /\ out.now = out.record.expires /\ CacheStatus(out.response) = S_STALE

PassStep ==
  \A r \in Slots :
    /\ (Reads(r) /\ ReadOf(r).state = "pass" /\ now < ReadOf(r).expires)
         => req'[r].pc = "passFetch" /\ out' = NoOut /\ store' = store /\ bg' = bg
    /\ (req[r].pc = "passFetch" /\ req'[r].pc # "passFetch")
         => /\ store' = store
            /\ Returned(r)
            /\ out'.path = "pass"
            /\ bg' = bg

PassInv ==
  out.path = "pass" => /\ out.fetches = 1
                       /\ out.puts = 0
                       /\ out.deletes = 0
                       /\ out.registered = 0
                       /\ CacheStatus(out.response) = S_UNCACHEABLE
                       /\ out.response.status = out.origin.status

(* C4: inside a hit-for-pass window the request fetches the origin      *)
(* once, writes and deletes nothing in the store, and answers           *)
(* UNCACHEABLE whatever the origin returned.                            *)
C4_PassActive == []PassInv /\ [][PassStep]_vars

C4_Witness ==
  /\ out.path = "pass"
  /\ out.origin.status = 404
  /\ KvGet(store, out.cacheKey).state = "pass"
  /\ KvGet(store, out.cacheKey).expires > out.now

VaryStar(response) == HGet(response.headers, "vary") = T_star

PassesStatusStage(response) ==
  /\ response.status \in {200, 404}
  /\ ~includes(toLowerCase(HGet(response.headers, "cache-control")), T_private)

PassRecordWritten(window) ==
  /\ out.puts = 1
  /\ out.cacheKey \in DOMAIN store
  /\ store[out.cacheKey].record = [state |-> "pass", expires |-> out.now + window * 1000]
  /\ store[out.cacheKey].expirationTtl = window

(* C5: a miss-path origin response with status 200 or 404, no private   *)
(* directive and Vary exactly * writes no cache record; it writes a     *)
(* pass record whose lifetime and store TTL are both the hit-for-pass   *)
(* window, raised to one second when the window is shorter.             *)
C5_VaryStarPass ==
  (out.path = "miss" /\ VaryStar(out.origin) /\ PassesStatusStage(out.origin))
    => PassRecordWritten(IF config.hitForPassSeconds >= 1 THEN config.hitForPassSeconds ELSE 1)

C5_Witness ==
  /\ out.path = "miss" /\ VaryStar(out.origin) /\ out.origin.status = 200
  /\ out.puts = 1
  /\ config.hitForPassSeconds = 0

(* C5 as stated: every Vary: * response, window taken as configured *)
C5_Original ==
  (out.path = "miss" /\ VaryStar(out.origin)) => PassRecordWritten(config.hitForPassSeconds)

WellFormed(record) ==
  \/ /\ record.state = "cache"
     /\ DOMAIN record = {"state", "status", "statusText", "headers", "body", "expires", "staleUntil"}
     /\ record.staleUntil >= record.expires
  \/ /\ record.state = "pass"
     /\ DOMAIN record = {"state", "expires"}

HitForPassMarked(response) ==
  \/ VaryStar(response)
  \/ /\ config.respectPrivateNoCache
     /\ \/ includes(toLowerCase(HGet(response.headers, "cache-control")), T_noStore)
        \/ includes(toLowerCase(HGet(response.headers, "cache-control")), T_noCache)
        \/ includes(toLowerCase(HGet(response.headers, "surrogate-control")), T_noStore)

(* an origin response the miss path writes nothing for *)
WritesNothing(response) ==
  \/ ~PassesStatusStage(response)
  \/ /\ ~HitForPassMarked(response)
     /\ \/ ~includes(toLowerCase(HGet(response.headers, "content-type")), T_html)
        \/ BodyLength(response.body) < 3

MissInv(writes(_)) ==
  /\ \A k \in DOMAIN store : store[k].record = lastPut[k] /\ WellFormed(store[k].record)
  /\ out.path = "miss"
       => /\ out.fetches = 1
          /\ writes(out.origin) <=> out.puts > 0
          /\ out.puts > 0
               => /\ out.cacheKey \in DOMAIN store
                  /\ LET record == store[out.cacheKey].record
                     IN IF CacheStatus(out.response) = S_MISS
                        THEN /\ record.state = "cache"
                             /\ record.status = out.origin.status
                             /\ record.body = out.origin.body
                        ELSE record.state = "pass"

WritesWhenStorable(response) == ~WritesNothing(response)

WritesAlways(response) == TRUE

(* C6: without a per-key lock, every request that reads an expired or   *)
(* absent key fetches the origin itself and writes a record whenever    *)
(* its response is cacheable or marked hit-for-pass; whatever the       *)
(* interleaving, the key holds one well-formed record, the one written  *)
(* last, and a request that returns after writing leaves its own.       *)
C6_LastWriteWins == MissInv(WritesWhenStorable)

C6_Witness ==
  /\ out.path = "miss" /\ out.puts = 2
  /\ \E o \in Slots \ {out.slot} : /\ req[o].pc = "outerWrite"
                                   /\ req[o].cacheKey = out.cacheKey
                                   /\ req[o].result.cacheResult # store[out.cacheKey].record

(* C6 as stated: each of the requests writes a record *)
C6_Original == MissInv(WritesAlways)

(* ------------------------------------------------------------------ *)
(* Properties of the normalizer and the key deriver                    *)
(* ------------------------------------------------------------------ *)
KeyOf(request) == computeCacheKey(createContext(request, config), config)

PairNames(pairs) == {pairs[i][1] : i \in 1..Len(pairs)}

PairCount(pairs, pair) == Cardinality({i \in 1..Len(pairs) : pairs[i] = pair})

(* q holds the pairs of p in some order *)
IsPermutation(p, q) ==
  /\ Len(p) = Len(q)
  /\ \A i \in 1..Len(p) : PairCount(p, p[i]) = PairCount(q, p[i])

(* ... and the pairs sharing a name keep their relative order *)
KeepsRepeatedNames(p, q) ==
  \A n \in PairNames(p) : SelectSeq(p, LAMBDA x : x[1] = n) = SelectSeq(q, LAMBDA x : x[1] = n)

SameKeyFor(Related(_, _)) ==
  kStage = "keyed" =>
    \A s2 \in KeySearches :
      Related(searchParams(kReq.search), searchParams(s2)) => KeyOf([kReq EXCEPT !.search = s2]) = kKey

StablePermutation(p, q) == IsPermutation(p, q) /\ KeepsRepeatedNames(p, q)

(* C7: two requests that agree on everything but the order of their     *)
(* query pairs get the same key, provided pairs that repeat a name      *)
(* keep their relative order.                                           *)
C7_QueryOrder == SameKeyFor(StablePermutation)

C7_Witness ==
  /\ kStage = "keyed"
  /\ \E s2 \in KeySearches : /\ s2 # kReq.search
                             /\ searchParams(s2) # <<>>
                             /\ StablePermutation(searchParams(kReq.search), searchParams(s2))

(* C7 as stated: any permutation of the pairs, repeated names included *)
C7_Original == SameKeyFor(IsPermutation)

(* C8 as stated: a GraphQL request with a cache identity never shares   *)
(* its key with a request of the same identity that differs in having   *)
(* a bearer token, whatever path and store header the other one has.    *)
C8_Original ==
  (kStage = "keyed" /\ kCtx.isGraphql /\ kCtx.magentoCacheId # <<>>) =>
    \A p \in KeyPaths, s \in KeyStores, a \in KeyAuths :
      LET other == [kReq EXCEPT !.pathname = p, !.headers.store = s, !.headers.authorization = a]
          otherCtx == createContext(other, config)
      IN (/\ otherCtx.isGraphql
          /\ ~shouldBypass(otherCtx, config).bypass
          /\ otherCtx.hasAuthToken # kCtx.hasAuthToken)
           => computeCacheKey(otherCtx, config) # kKey

(* C9 as stated: the key of a GraphQL request with a cache identity     *)
(* never contains ::vary: and the key of a request that is not GraphQL  *)
(* never contains ::graphql:                                            *)
C9_Original ==
  kStage = "keyed" =>
    /\ (kCtx.isGraphql /\ kCtx.magentoCacheId # <<>>) => ~includes(kKey, L_vary)
    /\ ~kCtx.isGraphql => ~includes(kKey, L_graphqlTag)

(* a name a configured pattern covers: the whole name for a literal,    *)
(* its beginning for a pattern ending in *, letter case ignored         *)
IsMarketingName(name) ==
  \E i \in 1..Len(config.marketingParams) :
    LET p == config.marketingParams[i]
    IN /\ p # <<>>
       /\ IF p[Len(p)] = "*"
          THEN /\ Len(name) >= Len(p) - 1
               /\ \A j \in 1..(Len(p) - 1) : Lower(name[j]) = Lower(p[j])
          ELSE /\ Len(name) = Len(p)
               /\ \A j \in 1..Len(p) : Lower(name[j]) = Lower(p[j])

(* the parameter names written into key after the host and path of request *)
KeyQueryNames(key, request) ==
  LET start == Len(CACHE_PREFIX) + Len(request.hostname) + Len(request.pathname)
      rest == SubSeq(key, start + 1, Len(key))
  IN IF rest # <<>> /\ rest[1] = "?"
     THEN LET chunks == Split(Tail(rest), "&")
          IN {Split(chunks[i], "=")[1] : i \in 1..Len(chunks)}
     ELSE {}

(* C10: stripping the marketing parameters of an already stripped URL   *)
(* removes nothing and changes nothing, and no parameter name covered   *)
(* by a configured pattern, in any letter case, is among the query      *)
(* pairs of the key.                                                    *)
C10_MarketingStripped ==
  /\ kStage \in {"context", "bypassed", "cacheable", "keyed"}
       => stripMarketingParams(kCtx.url, config) = [url |-> kCtx.url, removed |-> <<>>]
  /\ kStage = "keyed" => \A n \in KeyQueryNames(kKey, kReq) : ~IsMarketingName(n)

C10_Witness ==
  /\ kStage = "keyed"
  /\ kReq.search = Q_GCLID
  /\ kCtx.marketingRemoved # <<>>
  /\ KeyQueryNames(kKey, kReq) # {}

(* a key segment: the literal and the value, nothing when the value is empty *)
Seg(lit, val) == IF val = <<>> THEN <<>> ELSE lit \o val

(* the request headers the key is derived from *)
BearerToken(auth) ==
  /\ Len(auth) > Len(L_bearer)
  /\ toLowerCase(SubSeq(auth, 1, Len(L_bearer))) = L_bearer
  /\ auth[Len(L_bearer) + 1] = " "

DeviceClass(ua) ==
  IF ua # <<>> /\ \E p \in config.mobileUaPattern : includes(toLowerCase(ua), p) THEN L_mobile
  ELSE IF ua # <<>> /\ \E p \in config.tabletUaPattern : includes(toLowerCase(ua), p) THEN L_tablet
  ELSE L_desktop

RefQuery(url) == paramsToString(SortPairs(searchParams(url.search)))

RefIdentity(request, graphql) ==
  IF graphql /\ request.headers.xMagentoCacheId # <<>>
  THEN L_graphqlTag \o request.headers.xMagentoCacheId
       \o (IF BearerToken(request.headers.authorization) THEN L_authorized ELSE <<>>)
  ELSE Seg(L_vary, extractCookieValue(request.headers.cookie, config.varyCookies))

RefGraphql(request, graphql) ==
  IF graphql
  THEN Seg(L_store, Or(request.headers.store, request.headers.xStore))
       \o Seg(L_currency, Or(request.headers.contentCurrency, request.headers.xCurrency))
  ELSE <<>>

(* the reference concatenation, from the request and its normalized url *)
RefKey(request, url, graphql) ==
  CACHE_PREFIX \o url.hostname \o url.pathname
  \o Seg(<<"?">>, RefQuery(url))
  \o RefIdentity(request, graphql)
  \o Seg(L_vh, extractVaryHeaders(request.headers, config.varyHeaders))
  \o (IF config.varyOnDeviceType THEN L_device \o DeviceClass(request.headers.userAgent) ELSE <<>>)
  \o Seg(L_ssl, Or(request.headers.cfVisitor, request.headers.xForwardedProto))
  \o RefGraphql(request, graphql)

(* C11: the key is the namespace, host and path, then the sorted query  *)
(* pairs if any, then the GraphQL identity (with :authorized for a      *)
(* bearer token) or else the vary cookie values, then the vary header   *)
(* values, the device class whenever device variation is on, the SSL    *)
(* marker, and for GraphQL the store and the currency; a segment with   *)
(* an empty value is left out, the device segment apart.                *)
C11_ReferenceKey ==
  kStage = "keyed" => kKey = RefKey(kReq, kCtx.url, startsWith(kCtx.url.pathname, config.graphqlPath))

C11_Witness ==
  /\ kStage = "keyed"
  /\ kReq.pathname = L_pathGraphql /\ kReq.search = Q_ba
  /\ kReq.headers.xMagentoCacheId = L_x /\ kReq.headers.authorization = A_bearer
  /\ kReq.headers.store = L_s /\ kReq.headers.contentCurrency = L_usd
  /\ kReq.headers.cfVisitor = L_https /\ kReq.headers.cookie = C_vary1
  /\ config.varyOnDeviceType

(* the six rules of the bypass policy, in order *)
BypassRules(request, ctx) ==
  << [hit |-> request.method \notin {"GET", "HEAD"}, reason |-> <<"method:", request.method>>],
     [hit |-> request.method = "HEAD" /\ request.headers.range # <<>>, reason |-> <<"range-head">>],
     [hit |-> ctx.pathname \in config.healthCheckPattern, reason |-> <<"health-check">>],
     [hit |-> \E p \in config.staticPathPattern : startsWith(ctx.pathname, p), reason |-> <<"static-path">>],
     [hit |-> \E i \in 1..Len(config.excludedPaths) : includes(ctx.pathname, config.excludedPaths[i]),
      reason |-> <<"excluded-path">>],
     [hit |-> /\ startsWith(ctx.pathname, config.graphqlPath)
              /\ BearerToken(request.headers.authorization)
              /\ request.headers.xMagentoCacheId = <<>>,
      reason |-> <<"graphql-auth-pass">>] >>

FirstRule(rules, hits, result) ==
  /\ result.bypass <=> hits # {}
  /\ result.reason = IF hits = {} THEN <<>> ELSE rules[Min(hits)].reason

Decided(rules, result) == FirstRule(rules, {i \in 1..Len(rules) : rules[i].hit}, result)

(* C13: the bypass policy bypasses exactly when one of its six rules    *)
(* matches (method, HEAD with Range, health check, static path,         *)
(* excluded substring, GraphQL with bearer and no identity) and reports *)
(* the reason of the first rule that matches, in that order.            *)
C13_BypassOrder ==
  kStage \in {"bypassed", "cacheable", "keyed"} => Decided(BypassRules(kReq, kCtx), kBypass)

C13_Witness ==
  /\ kStage = "bypassed"
  /\ kReq.method = "POST" /\ includes(kReq.pathname, config.excludedPaths[2])
  /\ kBypass.reason = <<"method:", "POST">>

(* ------------------------------------------------------------------ *)
(* Properties of the miss path and of bypassed requests                *)
(* ------------------------------------------------------------------ *)
(* the query of request without the pairs a marketing pattern covers *)
StrippedSearch(request) ==
  paramsToString(SelectSeq(searchParams(request.search), LAMBDA p : ~IsMarketingName(p[1])))

(* the url the origin is asked for: the normalized one, at the origin host when one is configured *)
StrippedTarget(request) ==
  [hostname |-> IF config.originHost # <<>> THEN config.originHost ELSE request.hostname,
   pathname |-> request.pathname,
   search |-> StrippedSearch(request)]

FirstMissInv ==
  out.path = "miss"
    => /\ out.fetches = 1
       /\ out.target = StrippedTarget(out.request)
       /\ PlainlyCacheable(out.origin)
            => /\ CacheStatus(out.response) = S_MISS
               /\ out.cacheKey \in DOMAIN store
               /\ store[out.cacheKey].record.state = "cache"
               /\ store[out.cacheKey].record.body = out.origin.body

FirstMissStep ==
  \A r \in Slots :
    (Reads(r) /\ ReadOf(r) = NoRecord)
      => /\ req'[r].pc = "missFetch" /\ req'[r].path = "miss"
         /\ req'[r].fetches = 0
         /\ out' = NoOut

(* C12: a request whose key has no stored record takes the miss path,   *)
(* which fetches the origin exactly once, at the normalized url without *)
(* the marketing parameters (at the configured origin host, if any);    *)
(* when the response passes every cacheability check the client gets    *)
(* MISS and a cache-variant record is stored under the key.             *)
C12_FirstMiss == []FirstMissInv /\ [][FirstMissStep]_vars

C12_Witness ==
  /\ out.path = "miss" /\ out.request.search = Q_gclid
  /\ out.target.search = Q_a
  /\ CacheStatus(out.response) = S_MISS
  /\ out.puts = 2 /\ out.fetches = 1

BypassedInv ==
  out.path = "bypass"
    => /\ out.cacheKey = <<>>
       /\ out.reads = 0 /\ out.puts = 0 /\ out.deletes = 0 /\ out.registered = 0
       /\ out.fetches = 1
       /\ CacheStatus(out.response) = S_UNCACHEABLE

BypassedStep ==
  \A r \in Slots :
    /\ (req[r].pc = "idle" /\ req'[r].pc # "idle")
         => /\ req'[r].pc = "bypassFetch"
                 <=> \E i \in 1..6 : BypassRules(req'[r].request, req'[r].ctx)[i].hit
            /\ req'[r].pc = "bypassFetch" => req'[r].cacheKey = <<>> /\ req'[r].ctx.cacheKey = <<>>
            /\ store' = store
    /\ (req[r].pc = "bypassFetch" /\ req'[r].pc # "bypassFetch")
         => /\ store' = store /\ lastPut' = lastPut /\ bg' = bg
            /\ Returned(r) /\ out'.path = "bypass"

(* C14: a request the bypass policy bypasses gets no cache key, never   *)
(* reads, writes or deletes a record, fetches the origin exactly once   *)
(* and is answered with cache status UNCACHEABLE.                       *)
C14_BypassSkipsCache == []BypassedInv /\ [][BypassedStep]_vars

C14_Witness ==
  /\ out.path = "bypass" /\ out.request.method = "POST"
  /\ out.origin.status = 200
  /\ DOMAIN store # {}

(* C16: every stored entry has a store TTL of at least the 60-second    *)
(* floor that covers the record's own expiry: staleUntil for the cache  *)
(* variant, expires for the pass variant.                               *)
C16_Original ==
  \A k \in DOMAIN store :
    /\ store[k].expirationTtl >= MIN_TTL
    /\ store[k].record.state = "cache" => store[k].expirationTtl * 1000 >= store[k].record.staleUntil - now
    /\ store[k].record.state = "pass" => store[k].expirationTtl * 1000 >= store[k].record.expires - now

(* ------------------------------------------------------------------ *)
(* Record derivation on the two miss paths                             *)
(* ------------------------------------------------------------------ *)
(* values of DEFAULT_TTL and GRACE_SECONDS in the environment; <<>> is unset *)
EnvInts == {<<>>, <<"0">>, <<"1">>, <<"2">>, <<"-", "1">>}

H_cc(cacheControl) ==
  [n \in {"content-type", "cache-control"} |-> IF n = "cache-control" THEN cacheControl ELSE T_html]

TtlCacheControls ==
  { <<>>, <<"s", "-", "m", "a", "x", "a", "g", "e", "=", "0">>, <<"m", "a", "x", "-", "a", "g", "e", "=", "0">>, <<"m", "a", "x", "-", "a", "g", "e", "=", "2">>,
    <<"s", "-", "m", "a", "x", "a", "g", "e", "=", "1", ",", " ", "m", "a", "x", "-", "a", "g", "e", "=", "0">> }

TtlResponses == { OriginResponse(200, "OK", H_cc(cc), B_page) : cc \in TtlCacheControls }

TtlRequest == Request("GET", L_pathP, Q_a, PlainHeaders)

WithKey(ctx, cfg) == [ctx EXCEPT !.cacheKey = computeCacheKey(ctx, cfg)]

TtlContext(cfg) == WithKey(createContext(TtlRequest, cfg), cfg)

TtlInit ==
  /\ config = DEFAULTS
  /\ now = 0
  /\ store = [k \in {} |-> NoRecord]
  /\ req = [r \in Slots |-> IdleRequest]
  /\ bg = [r \in Slots |-> IdleTask]
  /\ out = NoOut
  /\ lastPut = [k \in {} |-> NoRecord]
  /\ kStage = "off"
  /\ kReq = NoRequest
  /\ kCtx = NoContext
  /\ kBypass = NoBypass
  /\ kKey = <<>>
  /\ ttl = [NoTtl EXCEPT !.stage = "env"]
  /\ purge = NoPurge
  /\ dec = NoDec
  /\ fin = NoFin
  /\ hooks = NoHooks
  /\ fwd = NoFwd
  /\ tee = NoTee
  /\ probe = NoProbe

(* buildConfig(env), config.ts lines 84-86 and 91 *)
TtlBuildConfig ==
  /\ ttl.stage = "env"
  /\ \E defaultTtl \in EnvInts, graceSeconds \in EnvInts, respectCacheControl \in BOOLEAN :
       config' = [DEFAULTS EXCEPT !.defaultTtl = envInt(defaultTtl, DEFAULTS.defaultTtl),
                                  !.graceSeconds = envInt(graceSeconds, DEFAULTS.graceSeconds),
                                  !.respectCacheControl = respectCacheControl]
  /\ ttl' = [ttl EXCEPT !.stage = "ready"]
  /\ UNCHANGED <<now, store, req, bg, out, lastPut, keyVars, purge, lateVars>>

TtlTick ==
  /\ ttl.stage = "ready"
  /\ now + 1000 <= MaxTime
  /\ now' = now + 1000
  /\ UNCHANGED <<config, store, req, bg, out, lastPut, keyVars, auxVars>>

(* the buffered miss path builds its record *)
TtlBuffered ==
  /\ ttl.stage = "ready"
  /\ \E response \in TtlResponses :
       ttl' = [stage |-> "buffered", created |-> now,
               record |-> fetchCacheableResponse(response, TtlContext(config), config, "true", now).cacheResult]
  /\ UNCHANGED <<handlerVars, keyVars, purge, lateVars>>

(* the streaming miss path builds its record *)
TtlStreaming ==
  /\ ttl.stage = "ready"
  /\ \E response \in TtlResponses :
       ttl' = [stage |-> "streaming", created |-> now,
               record |-> fetchStreamingResponse(response, TtlContext(config), config, now).cacheResult]
  /\ UNCHANGED <<handlerVars, keyVars, purge, lateVars>>

TtlNext == TtlBuildConfig \/ TtlTick \/ TtlBuffered \/ TtlStreaming

TtlSpec == TtlInit /\ [][TtlNext]_vars

(* C15: every cache-variant record built by the buffered or the        *)
(* streaming miss path has staleUntil >= expires >= its creation time, *)
(* whatever default TTL, grace period and Cache-Control are in force.  *)
C15_Original ==
  (ttl.stage \in {"buffered", "streaming"} /\ ttl.record.state = "cache")
    => /\ ttl.record.staleUntil >= ttl.record.expires
       /\ ttl.record.expires >= ttl.created

(* ------------------------------------------------------------------ *)
(* Purge (purge.ts)                                                    *)
(* ------------------------------------------------------------------ *)
T_true == <<"t", "r", "u", "e">>
T_TRUE == <<"T", "R", "U", "E">>
T_plain == <<"t", "e", "x", "t", "/", "p", "l", "a", "i", "n">>
T_secret == <<"s">>
T_wrong == <<"w">>
B_brace == <<"{">>

LIST_LIMIT == 1000

PurgeResponse(status, contentType, body) ==
  [status |-> status, statusText |-> "", headers |-> [n \in {"content-type"} |-> contentType], body |-> body]

(* lines 11-13 *)
Authorized_unsetAllowsAll(request, cfg) ==
  cfg.purgeSecret = <<>> \/ request.headers.xPurgeSecret = cfg.purgeSecret

Authorized(request, cfg) ==
  ~(cfg.purgeSecret = <<>> \/ request.headers.xPurgeSecret # cfg.purgeSecret)

(* lines 27-34 *)
Purged(cacheKey, url) ==
  PurgeResponse(200, T_json, [success |-> TRUE, purged |-> cacheKey, url |-> url])

(* lines 53-60 *)
PurgedAll(totalDeleted) ==
  PurgeResponse(200, T_json, [success |-> TRUE, purged |-> totalDeleted, message |-> totalDeleted])

(* handlePurgeRequest up to its first await: the invocation p after the *)
(* secret test, the X-Purge-All test and the key derivation.           *)
handlePurgeRequest_baseKey(p, ctx, cfg) ==
  IF ~Authorized(ctx.request, cfg)
    THEN [p EXCEPT !.pc = "done", !.response = PurgeResponse(401, T_plain, [text |-> "Unauthorized"])]
  ELSE IF ctx.request.headers.xPurgeAll = T_true
    THEN [p EXCEPT !.pc = "list", !.all = TRUE]
  ELSE [p EXCEPT !.pc = "deleteKey", !.cacheKey = computeCacheKey(ctx, cfg)]

(* the handler of the earlier revision: the key comes from the          *)
(* X-Cache-Key header or the JSON body, and an unparseable body is a 400 *)
handlePurgeRequest_bodyKey(p, ctx, cfg) ==
  IF ~Authorized(ctx.request, cfg)
    THEN [p EXCEPT !.pc = "done", !.response = PurgeResponse(401, T_plain, [text |-> "Unauthorized"])]
  ELSE IF ctx.request.headers.xPurgeAll = T_true
    THEN [p EXCEPT !.pc = "list", !.all = TRUE]
  ELSE IF ctx.request.headers.xCacheKey = <<>> /\ ctx.request.body = B_brace
    THEN [p EXCEPT !.pc = "done", !.response = PurgeResponse(400, T_plain, [text |-> "Invalid JSON body"])]
  ELSE [p EXCEPT !.pc = "deleteKey",
                 !.cacheKey = runTransformCacheKey(cfg.plugins, computeCacheKey(ctx, cfg))]

handlePurgeRequest(p, ctx, cfg) ==
  IF ~Authorized(ctx.request, cfg)
    THEN [p EXCEPT !.pc = "done", !.response = PurgeResponse(401, T_plain, [text |-> "Unauthorized"])]
  ELSE IF ctx.request.headers.xPurgeAll = T_true
    THEN [p EXCEPT !.pc = "list", !.all = TRUE]
  ELSE [p EXCEPT !.pc = "deleteKey",
                 !.cacheKey = runTransformCacheKey(cfg.plugins, computeCacheKey(ctx, cfg))]

(* a custom plugin with a transformCacheKey hook that appends suffix *)
KeyPlugin(name, suffix) ==
  [name |-> name, validateCacheHit |-> FALSE, shouldCache |-> FALSE,
   transformCacheKey |-> TRUE, keySuffix |-> suffix]

PurgeConfigs ==
  { [DEFAULTS EXCEPT !.purgeSecret = secret, !.plugins = plugins] :
      secret \in {<<>>, T_secret},
      plugins \in {<<>>, <<KeyPlugin("x", L_x)>>, <<KeyPlugin("x", L_x), KeyPlugin("s", L_s)>>} }

(* the urls whose records the store holds, in the order of their keys  *)
(* ("fpc:h/p::", "fpc:h/p?a=1&a=2::", "fpc:h/p?a=1&b=2::", "fpc:h/p?a=1::") *)
PurgeSearches == << <<>>, Q_a12, Q_ab, Q_a >>

(* the key the request path stores the i-th url under *)
PurgeKeyOf(i, cfg) ==
  runTransformCacheKey(cfg.plugins,
    computeCacheKey(createContext(Request("GET", L_pathP, PurgeSearches[i], PlainHeaders), cfg), cfg))

RECURSIVE Spelled(_)
Spelled(s) == IF s = <<>> THEN <<>> ELSE <<Head(s)>> \o Spelled(Tail(s))

(* the keys of the first n urls under the deployed configuration, in list order *)
RECURSIVE PurgeKeysOf(_, _)
PurgeKeysOf(n, cfg) == IF n = 0 THEN <<>> ELSE Append(PurgeKeysOf(n - 1, cfg), Spelled(PurgeKeyOf(n, cfg)))

(* the key of the i-th url, as the namespace of this deployment names it *)
PurgeKey(i) == purge.keys[i]

(* FPC_CACHE.list({cursor, limit}): the keys after the cursor, in key order *)
Remaining(kv, cursor) == {i \in 1..Len(PurgeSearches) : i > cursor /\ PurgeKey(i) \in DOMAIN kv}

FirstOf(remaining, n) == {i \in remaining : Cardinality({j \in remaining : j < i}) < n}

PageSizes(remaining) ==
  IF remaining = {} THEN {0} ELSE 1..Min({LIST_LIMIT, Cardinality(remaining)})

KvDeleteAll(kv, keys) == [k \in (DOMAIN kv) \ keys |-> kv[k]]

(* line 47 *)
Counted_perPage(totalDeleted, keys) == totalDeleted + 1

Counted(totalDeleted, keys) == totalDeleted + Cardinality(keys)

(* line 50 *)
Last(page) == CHOOSE m \in page : \A n \in page : m >= n

NextCursor_ignoresComplete(complete, page) == IF page = {} THEN 0 ELSE Last(page)

NextCursor(complete, page) == IF complete \/ page = {} THEN 0 ELSE Last(page)

PurgeHeaders(secret, all, cacheKey) ==
  [PlainHeaders EXCEPT !.xPurgeSecret = secret, !.xPurgeAll = all, !.xCacheKey = cacheKey]

(* POST requests bearing X-Purge-Secret *)
PurgeRequests ==
  { [Request("POST", L_pathP, search, PurgeHeaders(secret, all, cacheKey)) EXCEPT !.body = body] :
      search \in {Q_gclid}, secret \in {T_secret, T_wrong}, all \in {<<>>, T_true, T_TRUE},
      cacheKey \in {<<>>}, body \in {<<>>} }
  \cup
  { [Request("POST", L_pathP, search, PurgeHeaders(T_secret, <<>>, cacheKey)) EXCEPT !.body = body] :
      search \in {Q_gclid, Q_ab}, cacheKey \in {<<>>, L_x}, body \in {<<>>, B_brace} }

PurgeInit ==
  /\ config \in PurgeConfigs
  /\ now = 0
  /\ store = [k \in {} |-> NoRecord]
  /\ req = [r \in Slots |-> IdleRequest]
  /\ bg = [r \in Slots |-> IdleTask]
  /\ out = NoOut
  /\ lastPut = [k \in {} |-> NoRecord]
  /\ kStage = "off"
  /\ kReq = NoRequest
  /\ kCtx = NoContext
  /\ kBypass = NoBypass
  /\ kKey = <<>>
  /\ ttl = NoTtl
  /\ purge = [NoPurge EXCEPT !.pc = "idle", !.keys = PurgeKeysOf(Len(PurgeSearches), config)]
  /\ dec = NoDec
  /\ fin = NoFin
  /\ hooks = NoHooks
  /\ fwd = NoFwd
  /\ tee = NoTee
  /\ probe = NoProbe

(* another invocation of the request path stores a record (here the    *)
(* hit-for-pass marker) under the key of the i-th url                  *)
PurgePut(i) ==
  /\ purge.pc \notin {"off", "done"}
  /\ PurgeKey(i) \notin DOMAIN store
  /\ store' = storeHitForPass(store, PurgeKey(i), config, now)
  /\ purge' = [purge EXCEPT !.concurrent = (purge.pc # "idle")]
  /\ UNCHANGED <<config, now, req, bg, out, lastPut, keyVars, ttl, lateVars>>

(* index.ts lines 10-20 and purge.ts lines 9-24 *)
PurgeStart(rq) ==
  /\ purge.pc = "idle"
  /\ rq.method = "POST" /\ rq.headers.xPurgeSecret # <<>>
  /\ purge' = handlePurgeRequest([purge EXCEPT !.request = rq, !.initial = DOMAIN store],
                                 createContext(rq, config), config)
  /\ UNCHANGED <<config, now, store, req, bg, out, lastPut, keyVars, ttl, lateVars>>

(* the invocations and the revalidations that are under way for cacheKey *)
InFlight(cacheKey) ==
  {r \in Slots : \/ req[r].pc # "idle" /\ req[r].cacheKey = cacheKey
                 \/ bg[r].pc \notin {"none", "done"} /\ bg[r].cacheKey = cacheKey}

(* lines 25-34 *)
PurgeDeleteKey ==
  /\ purge.pc = "deleteKey"
  /\ store' = KvDelete(store, purge.cacheKey)
  /\ purge' = [purge EXCEPT !.pc = "done", !.deleted = {purge.cacheKey},
                            !.inFlight = InFlight(purge.cacheKey),
                            !.response = Purged(purge.cacheKey, normalizeUrl(UrlOf(purge.request), config))]
  /\ UNCHANGED <<config, now, req, bg, out, lastPut, keyVars, ttl, lateVars>>

(* lines 42-43: one list call; the store may return fewer keys than the limit *)
PurgeList ==
  /\ purge.pc = "list"
  /\ \E n \in PageSizes(Remaining(store, purge.cursor)), complete \in BOOLEAN :
       /\ complete => n = Cardinality(Remaining(store, purge.cursor))
       /\ n = 0 => complete
       /\ purge' = [purge EXCEPT !.pc = "deletePage", !.lists = @ + 1, !.complete = complete,
                                 !.page = FirstOf(Remaining(store, purge.cursor), n)]
  /\ UNCHANGED <<config, now, store, req, bg, out, lastPut, keyVars, ttl, lateVars>>

(* lines 45-60: the deletes of one page, the count, the cursor and the loop test *)
PurgeDeletePage ==
  /\ purge.pc = "deletePage"
  /\ store' = KvDeleteAll(store, {PurgeKey(i) : i \in purge.page})
  /\ purge' = [purge EXCEPT
                 !.totalDeleted = Counted(@, purge.page),
                 !.deleted = @ \cup {PurgeKey(i) : i \in purge.page},
                 !.cursor = NextCursor(purge.complete, purge.page),
                 !.page = {},
                 !.pc = IF NextCursor(purge.complete, purge.page) # 0 THEN "list" ELSE "done",
                 !.response = IF NextCursor(purge.complete, purge.page) # 0 THEN @
                              ELSE PurgedAll(Counted(purge.totalDeleted, purge.page))]
  /\ UNCHANGED <<config, now, req, bg, out, lastPut, keyVars, ttl, lateVars>>

(* the response has been returned; the worker takes the next purge request *)
PurgeReturn ==
  /\ purge.pc = "done"
  /\ purge' = [NoPurge EXCEPT !.pc = "idle", !.keys = purge.keys]
  /\ UNCHANGED <<handlerVars, keyVars, ttl, lateVars>>

PurgeNext ==
  \/ \E i \in 1..Len(PurgeSearches) : PurgePut(i)
  \/ \E rq \in PurgeRequests : PurgeStart(rq)
  \/ PurgeDeleteKey
  \/ PurgeList
  \/ PurgeDeletePage
  \/ PurgeReturn

PurgeSpec == PurgeInit /\ [][PurgeNext]_vars

(* the purge request carries the configured secret *)
SecretMatches == config.purgeSecret # <<>> /\ purge.request.headers.xPurgeSecret = config.purgeSecret

(* the key the request path derives for a GET with the url and headers of rq *)
RequestPathKey(rq) ==
  Started([rq EXCEPT !.method = "GET"], createContext([rq EXCEPT !.method = "GET"], config)).cacheKey

(* C17: an authorized purge with X-Purge-All: true on a store of N keys, *)
(* with no concurrent writer, deletes every key, leaves the store empty *)
(* and reports purged = N, however the keys are spread over list pages. *)
C17_PurgeAll ==
  (purge.pc = "done" /\ SecretMatches /\ purge.request.headers.xPurgeAll = T_true /\ ~purge.concurrent)
    => /\ DOMAIN store = {}
       /\ purge.deleted = purge.initial
       /\ purge.response.status = 200
       /\ purge.response.body.purged = Cardinality(purge.initial)

C17_Witness ==
  /\ purge.pc = "done" /\ SecretMatches /\ purge.request.headers.xPurgeAll = T_true
  /\ ~purge.concurrent
  /\ Cardinality(purge.initial) = Len(PurgeSearches)
  /\ purge.lists = 3
  /\ purge.response.body.purged = Len(PurgeSearches)

(* C18: a purge request whose secret differs from the configured one,  *)
(* or that arrives when no secret is configured, gets 401 and changes  *)
(* nothing: no key deleted, no list call, also with X-Purge-All: true.  *)
C18_Unauthorized ==
  (purge.pc = "done" /\ ~SecretMatches)
    => /\ purge.response.status = 401
       /\ purge.deleted = {} /\ purge.lists = 0 /\ purge.totalDeleted = 0
       /\ DOMAIN store = purge.initial

C18_Witness ==
  /\ purge.pc = "done" /\ config.purgeSecret = <<>>
  /\ purge.request.headers.xPurgeSecret = T_secret
  /\ purge.request.headers.xPurgeAll = T_true
  /\ purge.response.status = 401
  /\ Cardinality(DOMAIN store) = Len(PurgeSearches)

(* the purge request gives no key header and its body is not parseable JSON *)
MalformedBody ==
  /\ purge.pc = "done" /\ SecretMatches
  /\ purge.request.headers.xCacheKey = <<>> /\ purge.request.body = B_brace

(* C19 as stated: an authorized purge request with no key header and an *)
(* unparseable JSON body is answered 400 and deletes no key.            *)
C19_Original == MalformedBody => (purge.response.status = 400 /\ purge.deleted = {})

(* C19: an authorized purge request without X-Purge-All, with no key   *)
(* header and an unparseable body, is answered 200 and deletes the key *)
(* derived from its url: the body is never read.                       *)
C19_BodyIgnored ==
  MalformedBody
    => /\ purge.response.status = 200
       /\ purge.deleted = {RequestPathKey([purge.request EXCEPT !.body = <<>>])}

C19_Witness ==
  /\ MalformedBody
  /\ purge.response.status = 200
  /\ purge.deleted \subseteq purge.initial /\ purge.deleted # {}

(* C20: an authorized purge without X-Purge-All deletes exactly one    *)
(* key, the key the request path computes for the same url and headers *)
(* (computeCacheKey, then every transformCacheKey hook in order); the  *)
(* response is a JSON acknowledgment and the origin is not contacted.  *)
C20_SingleKey ==
  (purge.pc = "done" /\ SecretMatches /\ purge.request.headers.xPurgeAll # T_true)
    => /\ purge.deleted = {RequestPathKey(purge.request)}
       /\ purge.response.status = 200
       /\ purge.response.headers["content-type"] = T_json
       /\ purge.response.body.success
       /\ purge.response.body.purged = RequestPathKey(purge.request)
       /\ purge.lists = 0 /\ purge.fetches = 0
       /\ ~purge.concurrent => DOMAIN store = purge.initial \ {RequestPathKey(purge.request)}

C20_Witness ==
  /\ purge.pc = "done" /\ SecretMatches /\ purge.request.headers.xPurgeAll = T_TRUE
  /\ Len(config.plugins) = 2
  /\ purge.request.search = Q_gclid
  /\ purge.deleted = {PurgeKey(4)}
  /\ Cardinality(purge.initial) = Len(PurgeSearches)
  /\ Cardinality(DOMAIN store) = Len(PurgeSearches) - 1

(* ------------------------------------------------------------------ *)
(* What the background revalidation persists                           *)
(* ------------------------------------------------------------------ *)
(* C25: a revalidation whose origin response is a hit-for-pass          *)
(* determination stores a pass-variant record under the key, replacing  *)
(* the stale record.                                                    *)
C25_Original ==
  \A r \in Slots :
    (bg[r].pc = "done" /\ bg[r].result.skipCache /\ bg[r].result.uncacheableReason = "hit-for-pass")
      => /\ bg[r].puts >= 1
         /\ bg[r].cacheKey \in DOMAIN lastPut
         /\ lastPut[bg[r].cacheKey].state = "pass"

(* ------------------------------------------------------------------ *)
(* Records a validateCacheHit hook rejects                             *)
(* ------------------------------------------------------------------ *)
(* what the client gets from a request that ended on the rejection path *)
RejectedInv(path) ==
  out.path = path
    => /\ out.reads = 1 /\ out.deletes = 1 /\ out.fetches = 1
       /\ out.puts = 0 /\ out.registered = 0
       /\ out.record = NoRecord
       /\ CacheStatus(out.response) = S_MISS
       /\ out.response.status = out.origin.status
       /\ out.response.body = ServedBody(out.origin, out.request)
       /\ bg[out.slot].pc = "none"

(* the steps of slot r on the rejection path: the delete, then the fetch *)
RejectedSteps(r, path) ==
  /\ (req[r].pc = "invalidate" /\ req[r].path = path /\ req'[r].pc # "invalidate")
       => /\ req[r].cacheKey \notin DOMAIN store'
          /\ \A k \in (DOMAIN store) \ {req[r].cacheKey} : k \in DOMAIN store' /\ store'[k] = store[k]
          /\ req'[r].pc = "invalidFetch" /\ req'[r].fetches = 0
          /\ out' = NoOut /\ bg' = bg
  /\ (req[r].pc = "invalidFetch" /\ req[r].path = path /\ req'[r].pc # "invalidFetch")
       => /\ store' = store /\ lastPut' = lastPut /\ bg' = bg
          /\ Returned(r) /\ out'.path = path

FreshRejectStep ==
  \A r \in Slots :
    /\ (Reads(r) /\ ReadOf(r).state = "cache" /\ now < ReadOf(r).expires /\ ~Returned(r))
         => /\ req'[r].pc = "invalidate" /\ req'[r].path = "invalid"
            /\ ~NoValidateHooks
            /\ store' = store /\ out' = NoOut
    /\ RejectedSteps(r, "invalid")

(* C26: when a validateCacheHit hook rejects a fresh record the request *)
(* deletes the stored record, fetches the origin once, answers MISS and *)
(* writes no record: its delete leaves the key absent and none of its   *)
(* later steps touches the store.                                       *)
C26_FreshRejected == []RejectedInv("invalid") /\ [][FreshRejectStep]_vars

C26_Witness ==
  /\ out.path = "invalid" /\ out.deletes = 1 /\ out.fetches = 1
  /\ CacheStatus(out.response) = S_MISS
  /\ out.cacheKey \notin DOMAIN store
  /\ out.cacheKey \in DOMAIN lastPut

StaleRejectStep ==
  \A r \in Slots :
    /\ (/\ Reads(r) /\ ReadOf(r).state = "cache"
        /\ ReadOf(r).expires <= now /\ now < ReadOf(r).staleUntil /\ ~Returned(r))
         => /\ req'[r].pc = "invalidate" /\ req'[r].path = "invalidStale"
            /\ ~NoValidateHooks
            /\ req'[r].registered = 0 /\ bg' = bg
            /\ store' = store /\ out' = NoOut
    /\ RejectedSteps(r, "invalidStale")

(* C27: when a validateCacheHit hook rejects a stale-servable record    *)
(* the stale body is not sent and no revalidation is registered: the    *)
(* request deletes the record, fetches the origin itself and serves     *)
(* that response.                                                       *)
C27_StaleRejected == []RejectedInv("invalidStale") /\ [][StaleRejectStep]_vars

C27_Witness ==
  /\ out.path = "invalidStale" /\ out.registered = 0
  /\ out.request.method = "GET"
  /\ out.cacheKey \in DOMAIN lastPut
  /\ out.response.body = out.origin.body
  /\ lastPut[out.cacheKey].state = "cache"
  /\ out.response.body # lastPut[out.cacheKey].body

(* ------------------------------------------------------------------ *)
(* The cacheability decision on both miss paths                        *)
(* ------------------------------------------------------------------ *)
T_png == <<"i", "m", "a", "g", "e", "/", "p", "n", "g">>
L_y == <<"y">>

(* a Headers object holds the headers that were given a value *)
Present(h) == [n \in {m \in DOMAIN h : h[m] # <<>>} |-> h[n]]

H_decision(cacheControl, vary, contentType, cacheId) ==
  Present([n \in {"cache-control", "vary", "content-type", "x-magento-cache-id"} |->
             CASE n = "cache-control" -> cacheControl
               [] n = "vary" -> vary
               [] n = "content-type" -> contentType
               [] OTHER -> cacheId])

DecResponses ==
  { OriginResponse(status, "", H_decision(cacheControl, vary, contentType, cacheId), body) :
      status \in {200, 500}, cacheControl \in {<<>>, T_private, T_noStore}, vary \in {<<>>, T_star},
      contentType \in {T_html, T_png}, cacheId \in {<<>>, L_y}, body \in {B_page, L_x} }

DecRequests ==
  { Request("GET", L_pathP, Q_a, PlainHeaders),
    Request("GET", L_pathGraphql, Q_a, [PlainHeaders EXCEPT !.xMagentoCacheId = L_x]) }

(* a custom plugin with a shouldCache hook *)
VetoPlugin ==
  [name |-> "veto", validateCacheHit |-> FALSE, shouldCache |-> TRUE,
   transformCacheKey |-> FALSE, keySuffix |-> <<>>]

DecConfigs ==
  { [DEFAULTS EXCEPT !.respectPrivateNoCache = respect, !.plugins = plugins] :
      respect \in BOOLEAN, plugins \in {<<>>, <<VetoPlugin>>} }

(* the handler's store decision on a FetchResult, lines 96-104 *)
StoreDecision(result) ==
  IF result.cacheResult # NoRecord THEN "cache"
  ELSE IF result.skipCache /\ result.uncacheableReason = "hit-for-pass" THEN "pass"
  ELSE "none"

DecInit ==
  /\ config \in DecConfigs
  /\ now = 0
  /\ store = [k \in {} |-> NoRecord]
  /\ req = [r \in Slots |-> IdleRequest]
  /\ bg = [r \in Slots |-> IdleTask]
  /\ out = NoOut
  /\ lastPut = [k \in {} |-> NoRecord]
  /\ kStage = "off"
  /\ kReq = NoRequest
  /\ kCtx = NoContext
  /\ kBypass = NoBypass
  /\ kKey = <<>>
  /\ ttl = NoTtl
  /\ purge = NoPurge
  /\ dec = [stage |-> "idle"]
  /\ fin = NoFin
  /\ hooks = NoHooks
  /\ fwd = NoFwd
  /\ tee = NoTee
  /\ probe = NoProbe

(* the origin answers the request of a miss *)
DecAnswer(rq, response) ==
  /\ dec.stage = "idle"
  /\ dec' = [stage |-> "answered", ctx |-> WithKey(createContext(rq, config), config),
             response |-> response]
  /\ UNCHANGED <<handlerVars, keyVars, ttl, purge, fin, hooks, lastVars>>

(* the buffered path: fetchCacheableResponse, then the handler's lines 96-104 *)
DecBuffered(results) ==
  /\ dec.stage = "answered"
  /\ dec' = [stage |-> "buffered", ctx |-> dec.ctx, response |-> dec.response,
             pluginDecision |-> runShouldCache(config.plugins, results),
             result |-> fetchCacheableResponse(dec.response, dec.ctx, config,
                                               runShouldCache(config.plugins, results), now)]
  /\ UNCHANGED <<handlerVars, keyVars, ttl, purge, fin, hooks, lastVars>>

(* the streaming path on the same response *)
DecStreaming ==
  /\ dec.stage = "buffered"
  /\ dec' = [stage |-> "both", ctx |-> dec.ctx, response |-> dec.response,
             pluginDecision |-> dec.pluginDecision, result |-> dec.result,
             buffered |-> StoreDecision(dec.result),
             streaming |-> fetchStreamingResponse(dec.response, dec.ctx, config, now).write]
  /\ UNCHANGED <<handlerVars, keyVars, ttl, purge, fin, hooks, lastVars>>

DecNext ==
  \/ \E rq \in DecRequests, response \in DecResponses : DecAnswer(rq, response)
  \/ \E results \in [1..Len(config.plugins) -> {"true", "false", "hit-for-pass"}] : DecBuffered(results)
  \/ DecStreaming

DecSpec == DecInit /\ [][DecNext]_vars

(* the six checks in the order the decision applies them *)
CacheChecks(response, ctx, pluginDecision) ==
  << [fails |-> \/ response.status \notin {200, 404}
                \/ includes(toLowerCase(HGet(response.headers, "cache-control")), T_private),
      reason |-> "status"],
     [fails |-> HitForPassMarked(response), reason |-> "hit-for-pass"],
     [fails |-> \A i \in 1..Len(config.cacheableMimeTypes) :
                  ~includes(toLowerCase(HGet(response.headers, "content-type")), config.cacheableMimeTypes[i]),
      reason |-> "content-type"],
     [fails |-> BodyLength(response.body) < 3, reason |-> "body-too-small"],
     [fails |-> /\ ctx.isGraphql /\ ctx.magentoCacheId # <<>>
                /\ HGet(response.headers, "x-magento-cache-id") \notin {<<>>, ctx.magentoCacheId},
      reason |-> "graphql-mismatch"],
     [fails |-> pluginDecision # "true",
      reason |-> IF pluginDecision = "false" THEN "plugin-blocked" ELSE "hit-for-pass"] >>

FirstFailing(checks, failing, result) ==
  /\ result.skipCache <=> failing # {}
  /\ (result.cacheResult # NoRecord) <=> failing = {}
  /\ result.cacheResult # NoRecord => result.cacheResult.state = "cache"
  /\ result.uncacheableReason = IF failing = {} THEN "" ELSE checks[Min(failing)].reason

(* C24: the cacheability decision applies status-or-private,           *)
(* hit-for-pass, content type, body length, GraphQL identity and the   *)
(* plugin verdict in that order; the reason is that of the first       *)
(* failing check and a cache-variant record is built exactly when none *)
(* fails.                                                              *)
C24_CheckOrder ==
  dec.stage \in {"buffered", "both"}
    => FirstFailing(CacheChecks(dec.response, dec.ctx, dec.pluginDecision),
                    {i \in 1..6 : CacheChecks(dec.response, dec.ctx, dec.pluginDecision)[i].fails},
                    dec.result)

C24_Witness ==
  /\ dec.stage = "buffered"
  /\ dec.response.status = 500
  /\ HGet(dec.response.headers, "vary") = T_star
  /\ dec.result.uncacheableReason = "status"

(* C30: when no plugin defines shouldCache, the streaming path and the *)
(* buffered path make the same store decision for every origin         *)
(* response: cache-variant record, pass-variant record, or nothing.    *)
C30_SameDecision ==
  (dec.stage = "both" /\ \A i \in 1..Len(config.plugins) : ~config.plugins[i].shouldCache)
    => dec.streaming = dec.buffered

C30_Witness ==
  /\ dec.stage = "both" /\ config.plugins = <<>>
  /\ dec.ctx.isGraphql
  /\ dec.response.status = 200 /\ dec.response.body = L_x
  /\ HGet(dec.response.headers, "content-type") = T_html
  /\ HGet(dec.response.headers, "vary") = <<>>
  /\ dec.buffered = "none" /\ dec.streaming = "none"

(* ------------------------------------------------------------------ *)
(* Response finalization on its own                                    *)
(* ------------------------------------------------------------------ *)
H_final(grace, debug, cacheControl) ==
  Present([n \in {"content-type", "x-fpc-grace", "x-magento-cache-debug", "cache-control"} |->
             CASE n = "content-type" -> T_html
               [] n = "x-fpc-grace" -> grace
               [] n = "x-magento-cache-debug" -> debug
               [] OTHER -> cacheControl])

FinResponses ==
  { OriginResponse(status, "", H_final(grace, debug, cacheControl), B_page) :
      status \in {200, 404}, grace \in {<<>>, T_normal}, debug \in {<<>>, S_HIT},
      cacheControl \in {<<>>, T_maxAge \o <<"2">>} }

FinRequests == { Request(method, L_pathP, Q_a, PlainHeaders) : method \in {"GET", "HEAD"} }

(* a custom plugin with a transformResponse hook that leaves tag *)
ResponsePlugin(name, tag, transformResponse) ==
  [name |-> name, validateCacheHit |-> FALSE, shouldCache |-> FALSE,
   transformCacheKey |-> FALSE, keySuffix |-> <<>>,
   transformResponse |-> transformResponse, tag |-> tag]

FinConfigs ==
  { [DEFAULTS EXCEPT !.returnClaims = returnClaims, !.plugins = plugins] :
      returnClaims \in BOOLEAN,
      plugins \in { <<>>, <<ResponsePlugin("x", L_x, TRUE)>>,
                    <<ResponsePlugin("x", L_x, TRUE), ResponsePlugin("n", <<>>, FALSE),
                      ResponsePlugin("s", L_s, TRUE)>> } }

FinInit ==
  /\ config \in FinConfigs
  /\ now = 0
  /\ store = [k \in {} |-> NoRecord]
  /\ req = [r \in Slots |-> IdleRequest]
  /\ bg = [r \in Slots |-> IdleTask]
  /\ out = NoOut
  /\ lastPut = [k \in {} |-> NoRecord]
  /\ kStage = "off"
  /\ kReq = NoRequest
  /\ kCtx = NoContext
  /\ kBypass = NoBypass
  /\ kKey = <<>>
  /\ ttl = NoTtl
  /\ purge = NoPurge
  /\ dec = NoDec
  /\ fin = [stage |-> "idle"]
  /\ hooks = NoHooks
  /\ fwd = NoFwd
  /\ tee = NoTee
  /\ probe = NoProbe

(* the origin answers a request *)
FinAnswer(rq, response) ==
  /\ fin.stage = "idle"
  /\ fin' = [stage |-> "answered", ctx |-> WithKey(createContext(rq, config), config),
             source |-> fetchFromOrigin(rq, response)]
  /\ UNCHANGED <<handlerVars, keyVars, ttl, purge, dec, hooks, lastVars>>

(* index.ts: finalizeResponse on the origin's answer *)
FinOrigin(cacheState) ==
  /\ fin.stage = "answered"
  /\ fin' = [stage |-> "finalized", ctx |-> fin.ctx, source |-> fin.source, cacheState |-> cacheState,
             response |-> finalizeResponse(fin.source, fin.ctx, config, cacheState, fin.ctx.claims)]
  /\ UNCHANGED <<handlerVars, keyVars, ttl, purge, dec, hooks, lastVars>>

(* the answer is stored as a cache-variant record *)
FinStore ==
  /\ fin.stage = "answered"
  /\ fetchCacheableResponse(fin.source, fin.ctx, config, "true", now).cacheResult # NoRecord
  /\ fin' = [stage |-> "stored", ctx |-> fin.ctx,
             source |-> fetchCacheableResponse(fin.source, fin.ctx, config, "true", now).cacheResult]
  /\ UNCHANGED <<handlerVars, keyVars, ttl, purge, dec, hooks, lastVars>>

(* cache.ts: buildCachedResponse on the stored record *)
FinRecord(cacheState) ==
  /\ fin.stage = "stored"
  /\ fin' = [stage |-> "finalized", ctx |-> fin.ctx, source |-> fin.source, cacheState |-> cacheState,
             response |-> buildCachedResponse(fin.source, fin.ctx, config, cacheState, fin.ctx.claims)]
  /\ UNCHANGED <<handlerVars, keyVars, ttl, purge, dec, hooks, lastVars>>

FinNext ==
  \/ \E rq \in FinRequests, response \in FinResponses : FinAnswer(rq, response)
  \/ \E cacheState \in {"MISS", "UNCACHEABLE"} : FinOrigin(cacheState)
  \/ FinStore
  \/ \E cacheState \in {"HIT", "STALE"} : FinRecord(cacheState)

FinSpec == FinInit /\ [][FinNext]_vars

(* C23: every finalized response carries the cache status of the path  *)
(* that produced it, one of HIT, STALE, MISS, UNCACHEABLE, and carries *)
(* X-FPC-Grace only when that status is STALE, whatever headers the    *)
(* origin or the stored record supplied.                               *)
C23_Original ==
  fin.stage = "finalized"
    => /\ CacheStatus(fin.response) \in {S_HIT, S_STALE, S_MISS, S_UNCACHEABLE}
       /\ CacheStatus(fin.response) = StatusText(fin.cacheState)
       /\ HHas(fin.response.headers, "x-fpc-grace") => fin.cacheState = "STALE"

(* C28: every finalized response has been passed through the           *)
(* transformResponse hook of every enabled plugin, in registration     *)
(* order, each on the previous one's output.                           *)
C28_Original ==
  fin.stage = "finalized"
    => HGet(fin.response.headers, "x-transformed")
         = HGet(runTransformResponse(config.plugins, NoResponse).headers, "x-transformed")

(* ------------------------------------------------------------------ *)
(* The plugin manager's veto hooks (plugins/runtime.ts)                *)
(* ------------------------------------------------------------------ *)
Null == [name |-> "null"]

(* what the factory of plugin name returns: the plugin, with or        *)
(* without the three veto hooks, or null when the config disables it   *)
Made(name) ==
  { Null,
    [name |-> name, onRequest |-> FALSE, validateCacheHit |-> FALSE, shouldCache |-> FALSE],
    [name |-> name, onRequest |-> TRUE, validateCacheHit |-> TRUE, shouldCache |-> TRUE] }

FactoryNames == <<"a", "b", "c">>

(* line 9 *)
createPluginManager(made) == SelectSeq(made, LAMBDA p : p # Null)

HookKinds == {"onRequest", "validateCacheHit", "shouldCache"}

(* what a hook of the kind can return *)
Outcomes(kind) ==
  CASE kind = "onRequest" -> {"void", "response"}
    [] kind = "validateCacheHit" -> {"true", "false"}
    [] OTHER -> {"true", "false", "hit-for-pass"}

(* lines 18, 45 and 55: the results that end the loop *)
Stops_never(kind, outcome) == FALSE

Stops(kind, outcome) ==
  CASE kind = "onRequest" -> outcome = "response"
    [] kind = "validateCacheHit" -> outcome = "false"
    [] OTHER -> outcome \in {"false", "hit-for-pass"}

(* lines 20, 48 and 58: the value returned when the loop runs out *)
Fallthrough(kind) == IF kind = "onRequest" THEN "void" ELSE "true"

Defines(p, kind) ==
  CASE kind = "onRequest" -> p.onRequest
    [] kind = "validateCacheHit" -> p.validateCacheHit
    [] OTHER -> p.shouldCache

HookInit ==
  /\ config = DEFAULTS
  /\ now = 0
  /\ store = [k \in {} |-> NoRecord]
  /\ req = [r \in Slots |-> IdleRequest]
  /\ bg = [r \in Slots |-> IdleTask]
  /\ out = NoOut
  /\ lastPut = [k \in {} |-> NoRecord]
  /\ kStage = "off"
  /\ kReq = NoRequest
  /\ kCtx = NoContext
  /\ kBypass = NoBypass
  /\ kKey = <<>>
  /\ ttl = NoTtl
  /\ purge = NoPurge
  /\ dec = NoDec
  /\ fin = NoFin
  /\ hooks = [pc |-> "factories"]
  /\ fwd = NoFwd
  /\ tee = NoTee
  /\ probe = NoProbe

(* the lists the factories can return, one entry per factory *)
MadeLists ==
  { made \in [1..Len(FactoryNames) -> UNION {Made(FactoryNames[j]) : j \in 1..Len(FactoryNames)}] :
      \A j \in 1..Len(FactoryNames) : made[j] \in Made(FactoryNames[j]) }

(* lines 8-9: the factories run and the nulls are filtered out *)
HookCreate(made) ==
  /\ hooks.pc = "factories"
  /\ hooks' = [pc |-> "ready", made |-> made, plugins |-> createPluginManager(made)]
  /\ UNCHANGED <<handlerVars, keyVars, ttl, purge, dec, fin, lastVars>>

(* a veto hook runner is called *)
HookRun(kind) ==
  /\ hooks.pc = "ready"
  /\ hooks' = [pc |-> "loop", made |-> hooks.made, plugins |-> hooks.plugins, kind |-> kind,
               i |-> 1, invoked |-> <<>>, result |-> ""]
  /\ UNCHANGED <<handlerVars, keyVars, ttl, purge, dec, fin, lastVars>>

(* one iteration of the for loop of lines 15-20, 42-48 or 52-58 *)
HookStep(outcome) ==
  /\ hooks.pc = "loop"
  /\ outcome \in Outcomes(hooks.kind)
  /\ hooks' =
       IF hooks.i > Len(hooks.plugins)
       THEN [hooks EXCEPT !.pc = "returned", !.result = Fallthrough(hooks.kind)]
       ELSE IF ~Defines(hooks.plugins[hooks.i], hooks.kind)
       THEN [hooks EXCEPT !.i = @ + 1]
       ELSE IF Stops(hooks.kind, outcome)
       THEN [hooks EXCEPT !.pc = "returned", !.result = outcome,
                          !.invoked = Append(@, [name |-> hooks.plugins[hooks.i].name, outcome |-> outcome])]
       ELSE [hooks EXCEPT !.i = @ + 1,
                          !.invoked = Append(@, [name |-> hooks.plugins[hooks.i].name, outcome |-> outcome])]
  /\ UNCHANGED <<handlerVars, keyVars, ttl, purge, dec, fin, lastVars>>

HookNext ==
  \/ \E made \in MadeLists : HookCreate(made)
  \/ \E kind \in HookKinds : HookRun(kind)
  \/ \E outcome \in {"void", "response", "true", "false", "hit-for-pass"} : HookStep(outcome)

HookSpec == HookInit /\ [][HookNext]_vars

(* the factories, in order, whose plugin is enabled and has the hook *)
Hooked(made, kind) ==
  SelectSeq(made, LAMBDA p : p.name # "null" /\ Defines(p, kind))

Vetoes(kind, outcome) ==
  \/ kind = "onRequest" /\ outcome = "response"
  \/ kind = "validateCacheHit" /\ outcome = "false"
  \/ kind = "shouldCache" /\ outcome \in {"false", "hit-for-pass"}

(* C29: a veto hook runner invokes the hooks of the enabled plugins in *)
(* registration order (null factories left out), returns the first     *)
(* veto (false, hit-for-pass or a response) and invokes no later hook; *)
(* with no veto it invokes them all and returns true (or nothing).     *)
C29_ShortCircuit ==
  hooks.pc = "returned"
    => /\ Len(hooks.invoked) <= Len(Hooked(hooks.made, hooks.kind))
       /\ \A n \in 1..Len(hooks.invoked) :
            /\ hooks.invoked[n].name = Hooked(hooks.made, hooks.kind)[n].name
            /\ Vetoes(hooks.kind, hooks.invoked[n].outcome) => n = Len(hooks.invoked)
       /\ IF \E n \in 1..Len(hooks.invoked) : Vetoes(hooks.kind, hooks.invoked[n].outcome)
          THEN hooks.result = hooks.invoked[Len(hooks.invoked)].outcome
          ELSE /\ Len(hooks.invoked) = Len(Hooked(hooks.made, hooks.kind))
               /\ hooks.result = IF hooks.kind = "onRequest" THEN "void" ELSE "true"

C29_Witness ==
  /\ hooks.pc = "returned" /\ hooks.kind = "shouldCache"
  /\ hooks.made[1] = Null /\ Len(hooks.plugins) = 2
  /\ Len(Hooked(hooks.made, hooks.kind)) = 2
  /\ Len(hooks.invoked) = 1
  /\ hooks.result = "hit-for-pass"

(* ------------------------------------------------------------------ *)
(* The handler with a failing record store or origin: every awaited    *)
(* call of the handler and of the revalidation may reject              *)
(* ------------------------------------------------------------------ *)
FaultConfigs == {DEFAULTS, [DEFAULTS EXCEPT !.plugins = <<mergedCssGuardPlugin>>]}

FaultInit ==
  /\ config \in FaultConfigs
  /\ now = 0
  /\ store = [k \in {} |-> NoRecord]
  /\ req = [r \in Slots |-> IdleRequest]
  /\ bg = [r \in Slots |-> IdleTask]
  /\ out = NoOut
  /\ lastPut = [k \in {} |-> NoRecord]
  /\ kStage = "off"
  /\ kReq = NoRequest
  /\ kCtx = NoContext
  /\ kBypass = NoBypass
  /\ kKey = <<>>
  /\ ttl = NoTtl
  /\ purge = NoPurge
  /\ dec = NoDec
  /\ fin = NoFin
  /\ hooks = NoHooks
  /\ fwd = NoFwd
  /\ tee = NoTee
  /\ probe = NoProbe

(* part_005 has no try/catch: a rejected await rejects the fetch       *)
(* handler's promise, the invocation ends and the client gets the      *)
(* runtime's error instead of a response of the handler                *)
Thrown(r, last) == Return(r, [last EXCEPT !.path = "thrown"], NoRecord, last.result.response, NoResponse)

(* line 42: readCacheRecord rejects *)
ReadFails(r) ==
  /\ out = NoOut
  /\ req[r].pc = "read"
  /\ Thrown(r, Read(r))
  /\ UNCHANGED <<config, now, store, bg, lastPut, keyVars, auxVars>>

(* origin.ts lines 152-154: the put of fetchCacheableResponse rejects, *)
(* which rejects line 94 of the handler                                *)
InnerWriteFails(r) ==
  /\ out = NoOut
  /\ req[r].pc = "innerWrite"
  /\ Thrown(r, req[r])
  /\ UNCHANGED <<config, now, store, bg, lastPut, keyVars, auxVars>>

(* line 98: the handler's own writeCacheRecord rejects *)
OuterWriteFails(r) ==
  /\ out = NoOut
  /\ req[r].pc = "outerWrite"
  /\ Thrown(r, req[r])
  /\ UNCHANGED <<config, now, store, bg, lastPut, keyVars, auxVars>>

(* line 101: storeHitForPass rejects *)
HfpWriteFails(r) ==
  /\ out = NoOut
  /\ req[r].pc = "hfpWrite"
  /\ Thrown(r, req[r])
  /\ UNCHANGED <<config, now, store, bg, lastPut, keyVars, auxVars>>

RevalidateFetchFails_rethrown(r) ==
  /\ bg[r].pc = "fetch"
  /\ bg' = [bg EXCEPT ![r] = [@ EXCEPT !.fetches = @ + 1, !.pc = "thrown"]]
  /\ UNCHANGED <<config, now, store, req, out, lastPut, keyVars, auxVars>>

(* origin.ts lines 160-166: the origin fetch of the revalidation       *)
(* rejects; the catch logs the error and the task's promise resolves   *)
RevalidateFetchFails(r) ==
  /\ bg[r].pc = "fetch"
  /\ bg' = [bg EXCEPT ![r] = [@ EXCEPT !.fetches = @ + 1, !.pc = "done"]]
  /\ UNCHANGED <<config, now, store, req, out, lastPut, keyVars, auxVars>>

(* origin.ts lines 152-154 under 160-166: the put of the revalidation  *)
(* rejects inside the try block                                        *)
RevalidateWriteFails(r) ==
  /\ bg[r].pc = "write"
  /\ bg' = [bg EXCEPT ![r] = [@ EXCEPT !.pc = "done"]]
  /\ UNCHANGED <<config, now, store, req, out, lastPut, keyVars, auxVars>>

FaultNext ==
  \/ Next
  \/ \E r \in Slots : ReadFails(r)
  \/ \E r \in Slots : InnerWriteFails(r)
  \/ \E r \in Slots : OuterWriteFails(r)
  \/ \E r \in Slots : HfpWriteFails(r)
  \/ \E r \in Slots : RevalidateFetchFails(r)
  \/ \E r \in Slots : RevalidateWriteFails(r)

FaultSpec == FaultInit /\ [][FaultNext]_vars

(* the revalidation in slot r ends in this step without having written: *)
(* its fetch or its write failed                                        *)
RevalidationFailed(r) ==
  /\ bg[r].pc \in {"fetch", "write"}
  /\ bg'[r].pc \notin {"fetch", "write"}
  /\ bg'[r].puts = bg[r].puts
  /\ bg[r].pc = "fetch" => bg'[r].result = NoResult

CaughtStep ==
  \A r \in Slots :
    RevalidationFailed(r) => /\ bg'[r].pc = "done"
                             /\ store' = store
                             /\ out' = out
                             /\ req' = req

(* C21: a failed revalidation (origin fetch error or store write       *)
(* error) ends its task normally: nothing is rethrown, the response    *)
(* being returned, the invocations and the stored record are unchanged *)
C21_RevalidationCaught ==
  /\ [](\A r \in Slots : bg[r].pc # "thrown")
  /\ [][CaughtStep]_vars

C21_Witness ==
  /\ out # NoOut /\ out.path = "stale"
  /\ CacheStatus(out.response) = S_STALE
  /\ bg[out.slot].pc = "done" /\ bg[out.slot].fetches = 1 /\ bg[out.slot].puts = 0
  /\ bg[out.slot].result = NoResult
  /\ KvGet(store, out.cacheKey) = out.record

(* C22 as stated: whatever the record store does, the request is       *)
(* answered, and with the origin's response when the origin was asked  *)
C22_Original ==
  out # NoOut
    => /\ out.response # NoResponse
       /\ out.origin # NoResponse => out.response.status = out.origin.status

(* ------------------------------------------------------------------ *)
(* The origin request of one client request: createContext,            *)
(* shouldBypass, computeCacheKey and buildOriginRequest as the handler *)
(* calls them (part_005 lines 10-40, origin.ts lines 5-10)             *)
(* ------------------------------------------------------------------ *)
FwdCookies == {<<>>, C_vary1, C_other, C_session, C_mixed}

FwdRequests ==
  { Request(method, p, <<>>, HeadersOf(c, id, <<>>, <<>>, <<>>, <<>>, <<>>, T_html)) :
      method \in {"GET", "POST"}, p \in {L_pathP, L_pathStatic, L_pathGraphql},
      c \in FwdCookies, id \in {<<>>, L_x} }

FwdConfigs == {DEFAULTS, [DEFAULTS EXCEPT !.cacheLoggedIn = FALSE]}

FwdInit ==
  /\ config \in FwdConfigs
  /\ now = 0
  /\ store = [k \in {} |-> NoRecord]
  /\ req = [r \in Slots |-> IdleRequest]
  /\ bg = [r \in Slots |-> IdleTask]
  /\ out = NoOut
  /\ lastPut = [k \in {} |-> NoRecord]
  /\ kStage = "request"
  /\ kReq \in FwdRequests
  /\ kCtx = NoContext
  /\ kBypass = NoBypass
  /\ kKey = <<>>
  /\ ttl = NoTtl
  /\ purge = NoPurge
  /\ dec = NoDec
  /\ fin = NoFin
  /\ hooks = NoHooks
  /\ fwd = [stage |-> "start"]
  /\ tee = NoTee
  /\ probe = NoProbe

(* the Context fetchFromOrigin is called with: part_005 line 31 sets   *)
(* isBypassed on a bypassed request, line 39 the key on the others     *)
Forwarded(ctx, bypass, cacheKey) == [ctx EXCEPT !.isBypassed = bypass, !.cacheKey = cacheKey]

(* part_005 lines 32, 49, 63, 81 and 94 through origin.ts lines 5-6 *)
FwdBuild ==
  /\ fwd.stage = "start"
  /\ kStage \in {"bypassed", "keyed"}
  /\ fwd' = [stage |-> "built",
             request |-> buildOriginRequest(Forwarded(kCtx, kBypass.bypass, kKey), config)]
  /\ UNCHANGED <<handlerVars, keyVars, ttl, purge, dec, fin, hooks, tee, probe>>

FwdNext == KeyCreateContext \/ KeyShouldBypass \/ KeyComputeCacheKey \/ FwdBuild

FwdSpec == FwdInit /\ [][FwdNext]_vars

(* C34 as stated: the origin request of a static-asset request carries *)
(* no Cookie header, whatever cookies the client sent                  *)
C34_Original ==
  (fwd.stage = "built" /\ kCtx.isStatic) => fwd.request.cookie = <<>>

(* the Context of the request that differs from kReq in its Cookie header only *)
WithCookie(c) == createContext([kReq EXCEPT !.headers.cookie = c], config)

SameKey(other) ==
  /\ ~shouldBypass(other, config).bypass
  /\ computeCacheKey(other, config) = kKey

(* C38 as stated: two non-bypassed requests that derive the same cache *)
(* key send the origin the same Cookie header                          *)
C38_Original ==
  (fwd.stage = "built" /\ ~kBypass.bypass)
    => \A c \in FwdCookies :
         SameKey(WithCookie(c))
           => buildOriginRequest(Forwarded(WithCookie(c), FALSE, kKey), config).cookie = fwd.request.cookie

(* ------------------------------------------------------------------ *)
(* Cache status against the writes of the request                      *)
(* ------------------------------------------------------------------ *)
(* the request that was just answered wrote a cache-variant record under its key *)
WroteCacheRecord ==
  /\ out.puts >= 1
  /\ out.cacheKey \in DOMAIN lastPut
  /\ lastPut[out.cacheKey].state = "cache"

(* C39 as stated: MISS means the request wrote a cache-variant record, *)
(* UNCACHEABLE means it wrote none                                     *)
C39_Original ==
  out # NoOut
    => /\ CacheStatus(out.response) = S_MISS => WroteCacheRecord
       /\ CacheStatus(out.response) = S_UNCACHEABLE => ~WroteCacheRecord

(* C39: a MISS response of a request in which no validation hook       *)
(* rejected a stored record means the request wrote a cache-variant    *)
(* record under its key; a MISS after a rejection and an UNCACHEABLE   *)
(* response mean it wrote none                                         *)
C39_StatusMatchesWrite ==
  out # NoOut
    => /\ (CacheStatus(out.response) = S_MISS /\ out.deletes = 0)
            => /\ WroteCacheRecord
               /\ lastPut[out.cacheKey].body = out.origin.body
       /\ (CacheStatus(out.response) = S_MISS /\ out.deletes > 0) => out.puts = 0
       /\ CacheStatus(out.response) = S_UNCACHEABLE => ~WroteCacheRecord

C39_Witness ==
  /\ out # NoOut
  /\ CacheStatus(out.response) = S_MISS
  /\ out.deletes = 0 /\ out.fetches = 1 /\ out.puts = 2
  /\ KvGet(store, out.cacheKey).state = "cache"
  /\ KvGet(store, out.cacheKey).body = out.origin.body

(* ------------------------------------------------------------------ *)
(* The asset-existence guard on the miss path (merged-css-guard,       *)
(* part_008): two concurrent requests for one page whose HTML          *)
(* references one merged stylesheet, each running shouldCache and,     *)
(* through verifyMergedCss, checkAssetOk for that stylesheet           *)
(* ------------------------------------------------------------------ *)
T_any == <<"*", "/", "*">>
Probes == {1, 2}
GuardAccepts == {T_html, T_any}
GuardResponse == OriginResponse(200, "OK", H_html, B_links)

GuardRequest(accept) == Request("GET", L_pathP, <<>>, [PlainHeaders EXCEPT !.accept = accept])

IdleProbe == [pc |-> "start", accept |-> <<>>, ok |-> FALSE, cached |-> FALSE, heads |-> 0, status |-> 0,
              verdict |-> "", written |-> ""]

GuardInit ==
  /\ config = [DEFAULTS EXCEPT !.plugins = <<mergedCssGuardPlugin>>]
  /\ now = 0
  /\ store = [k \in {} |-> NoRecord]
  /\ req = [r \in Slots |-> IdleRequest]
  /\ bg = [r \in Slots |-> IdleTask]
  /\ out = NoOut
  /\ lastPut = [k \in {} |-> NoRecord]
  /\ kStage = "off"
  /\ kReq = NoRequest
  /\ kCtx = NoContext
  /\ kBypass = NoBypass
  /\ kKey = <<>>
  /\ ttl = NoTtl
  /\ purge = NoPurge
  /\ dec = NoDec
  /\ fin = NoFin
  /\ hooks = NoHooks
  /\ fwd = NoFwd
  /\ tee = NoTee
  /\ \E asset \in {200, 404}, accepts \in [Probes -> GuardAccepts] :
       probe = [pc |-> "on", asset |-> asset, first |-> asset, memo |-> "", lastWriter |-> 0,
                task |-> [p \in Probes |-> [IdleProbe EXCEPT !.accept = accepts[p]]]]

SetProbe(p, new) == probe' = [probe EXCEPT !.task[p] = new]

GuardFrame == UNCHANGED <<handlerVars, keyVars, ttl, purge, dec, fin, hooks, fwd, tee>>

(* a deployment replaces the merged stylesheet: the old url stops answering 200 *)
GuardDeploy ==
  /\ probe.pc = "on"
  /\ probe.asset = 200
  /\ probe' = [probe EXCEPT !.asset = 404]
  /\ GuardFrame

(* lines 190-195: shouldCache looks at the request's Accept header and *)
(* runs verifyMergedCss only when it names text/html                   *)
GuardShouldCache(p) ==
  /\ probe.pc = "on"
  /\ probe.task[p].pc = "start"
  /\ SetProbe(p, IF includes(probe.task[p].accept, T_html)
                  THEN [probe.task[p] EXCEPT !.pc = "get"]
                  ELSE [probe.task[p] EXCEPT !.pc = "decide", !.verdict = "true"])
  /\ GuardFrame

(* lines 59-62: the memoized verdict, when there is one *)
ProbeGet(p) ==
  /\ probe.pc = "on"
  /\ probe.task[p].pc = "get"
  /\ SetProbe(p, IF probe.memo = "" THEN [probe.task[p] EXCEPT !.pc = "head"]
                  ELSE [probe.task[p] EXCEPT !.pc = "verified", !.ok = (probe.memo = "1"), !.cached = TRUE])
  /\ GuardFrame

(* lines 63-65: the store read rejects, proceed with the HEAD request *)
ProbeGetFails(p) ==
  /\ probe.pc = "on"
  /\ probe.task[p].pc = "get"
  /\ SetProbe(p, [probe.task[p] EXCEPT !.pc = "head"])
  /\ GuardFrame

(* lines 68-71 *)
ProbeHead(p) ==
  /\ probe.pc = "on"
  /\ probe.task[p].pc = "head"
  /\ SetProbe(p, [probe.task[p] EXCEPT !.pc = "put", !.heads = @ + 1, !.status = probe.asset,
                                       !.ok = (probe.asset = 200)])
  /\ GuardFrame

(* lines 72-74: the HEAD request rejects *)
ProbeHeadFails(p) ==
  /\ probe.pc = "on"
  /\ probe.task[p].pc = "head"
  /\ SetProbe(p, [probe.task[p] EXCEPT !.pc = "put", !.heads = @ + 1, !.ok = FALSE])
  /\ GuardFrame

ProbePut_keepFirst(p) ==
  /\ probe.pc = "on"
  /\ probe.task[p].pc = "put"
  /\ probe' = [probe EXCEPT !.memo = IF @ # "" THEN @ ELSE IF probe.task[p].ok THEN "1" ELSE "0",
                            !.lastWriter = p,
                            !.task[p] = [@ EXCEPT !.pc = "verified"]]
  /\ GuardFrame

(* lines 77-79 and 84 *)
ProbePut(p) ==
  /\ probe.pc = "on"
  /\ probe.task[p].pc = "put"
  /\ probe' = [probe EXCEPT !.memo = IF probe.task[p].ok THEN "1" ELSE "0",
                            !.lastWriter = p,
                            !.task[p] = [@ EXCEPT !.pc = "verified"]]
  /\ GuardFrame

(* lines 80-84: the store write rejects and is ignored *)
ProbePutFails(p) ==
  /\ probe.pc = "on"
  /\ probe.task[p].pc = "put"
  /\ SetProbe(p, [probe.task[p] EXCEPT !.pc = "verified"])
  /\ GuardFrame

(* lines 118-139 for the one link, and lines 196-200 *)
GuardVerdict(p) ==
  /\ probe.pc = "on"
  /\ probe.task[p].pc = "verified"
  /\ SetProbe(p, [probe.task[p] EXCEPT !.pc = "decide",
                                       !.verdict = IF probe.task[p].ok THEN "true" ELSE "hit-for-pass"])
  /\ GuardFrame

(* origin.ts lines 129-156 and part_005 lines 96-101: what the request stores *)
GuardStore(p) ==
  /\ probe.pc = "on"
  /\ probe.task[p].pc = "decide"
  /\ SetProbe(p, [probe.task[p] EXCEPT
                    !.pc = "done",
                    !.written = StoreDecision(
                       fetchCacheableResponse(
                         GuardResponse,
                         WithKey(createContext(GuardRequest(probe.task[p].accept), config), config),
                         config,
                         runShouldCache(config.plugins, <<probe.task[p].verdict>>),
                         now))])
  /\ GuardFrame

GuardNext ==
  \/ GuardDeploy
  \/ \E p \in Probes : GuardShouldCache(p)
  \/ \E p \in Probes : ProbeGet(p)
  \/ \E p \in Probes : ProbeGetFails(p)
  \/ \E p \in Probes : ProbeHead(p)
  \/ \E p \in Probes : ProbeHeadFails(p)
  \/ \E p \in Probes : ProbePut(p)
  \/ \E p \in Probes : ProbePutFails(p)
  \/ \E p \in Probes : GuardVerdict(p)
  \/ \E p \in Probes : GuardStore(p)

GuardSpec == GuardInit /\ [][GuardNext]_vars

(* C32 as stated: with the stylesheet missing from the start, every    *)
(* request stores a pass-variant record, never a cache-variant one,    *)
(* whatever headers it carried                                         *)
C32_Original ==
  probe.pc = "on"
    => \A p \in Probes :
         (probe.task[p].pc = "done" /\ probe.first = 404) => probe.task[p].written = "pass"

(* the checkAssetOk call of request p has returned *)
Probed(p) ==
  /\ includes(probe.task[p].accept, T_html)
  /\ probe.task[p].pc \in {"verified", "decide", "done"}

(* both requests issued a HEAD request for the stylesheet and their checks have returned *)
BothProbed == probe.pc = "on" /\ \A p \in Probes : Probed(p) /\ probe.task[p].heads = 1

Memoized(ok) == IF ok THEN "1" ELSE "0"

(* C33 as stated: two concurrent first-time probes that both issued a  *)
(* HEAD request return the verdict that is left memoized               *)
C33_Original ==
  BothProbed => \A p \in Probes : probe.memo = Memoized(probe.task[p].ok)

(* C33: two concurrent first-time probes may both issue a HEAD         *)
(* request; each returns the verdict of its own HEAD request, the      *)
(* value left memoized, if any, is the verdict of the probe whose      *)
(* write landed last, and probes whose HEAD requests got the same      *)
(* answer return the same verdict, equal to the memoized value         *)
C33_LastWriteWins ==
  BothProbed
    => /\ \A p \in Probes : probe.task[p].ok = (probe.task[p].status = 200)
       /\ probe.memo # "" => /\ probe.lastWriter \in Probes
                             /\ probe.memo = Memoized(probe.task[probe.lastWriter].ok)
       /\ probe.task[1].status = probe.task[2].status
            => /\ probe.task[1].ok = probe.task[2].ok
               /\ probe.memo \in {"", Memoized(probe.task[1].ok)}

C33_Witness ==
  /\ BothProbed
  /\ probe.task[1].status = 200 /\ probe.task[2].status = 200
  /\ probe.task[1].ok /\ probe.task[2].ok
  /\ probe.memo = "1"

(* ------------------------------------------------------------------ *)
(* The streaming tee (origin.ts lines 178-288) as a process: the call  *)
(* returns the client response and a background promise, which then    *)
(* captures the teed body and writes.  The buffered path              *)
(* (lines 74-157) runs on the same inputs for comparison.              *)
(* ------------------------------------------------------------------ *)
H_leaky ==
  [n \in {"content-type", "set-cookie", "age", "x-powered-by", "server", "via", "x-varnish", "link", "x-custom"} |->
     IF n = "content-type" THEN T_html ELSE <<"1">>]
H_gql == [n \in {"content-type", "x-magento-cache-id"} |-> IF n = "content-type" THEN T_html ELSE L_y]
H_png == [n \in {"content-type", "set-cookie"} |-> IF n = "content-type" THEN T_png ELSE <<"1">>]

TeeResponses ==
  { OriginResponse(status, "", headers, body) :
      status \in {200, 500}, headers \in {H_html, H_rich, H_leaky, H_varyStar, H_gql, H_png},
      body \in {B_page, L_x, <<>>} }

TeeRequests ==
  { Request("GET", L_pathP, Q_a, PlainHeaders),
    Request("GET", L_pathGraphql, Q_a, [PlainHeaders EXCEPT !.xMagentoCacheId = L_x]) }

TeeConfigs == {DEFAULTS, [DEFAULTS EXCEPT !.respectPrivateNoCache = TRUE, !.respectCacheControl = TRUE]}

TeeInit ==
  /\ config \in TeeConfigs
  /\ now = 0
  /\ store = [k \in {} |-> NoRecord]
  /\ req = [r \in Slots |-> IdleRequest]
  /\ bg = [r \in Slots |-> IdleTask]
  /\ out = NoOut
  /\ lastPut = [k \in {} |-> NoRecord]
  /\ kStage = "off"
  /\ kReq = NoRequest
  /\ kCtx = NoContext
  /\ kBypass = NoBypass
  /\ kKey = <<>>
  /\ ttl = NoTtl
  /\ purge = NoPurge
  /\ dec = NoDec
  /\ fin = NoFin
  /\ hooks = NoHooks
  /\ fwd = NoFwd
  /\ tee = [pc |-> "idle"]
  /\ probe = NoProbe

TeeFrame == UNCHANGED <<config, now, req, bg, out, lastPut, keyVars, ttl, purge, dec, fin, hooks, fwd, probe>>

(* lines 189-213: the header checks *)
StreamVerdict(response, cfg, cacheControl, surrogate, vary) ==
  IF (response.status # 200 /\ response.status # 404) \/ includes(toLowerCase(cacheControl), T_private)
    THEN "status"
  ELSE IF \/ /\ cfg.respectPrivateNoCache
             /\ \/ includes(toLowerCase(cacheControl), T_noStore)
                \/ includes(toLowerCase(cacheControl), T_noCache)
                \/ includes(toLowerCase(surrogate), T_noStore)
          \/ vary = T_star
    THEN "hit-for-pass"
  ELSE IF ~\E i \in 1..Len(cfg.cacheableMimeTypes) :
              includes(toLowerCase(HGet(response.headers, "content-type")), toLowerCase(cfg.cacheableMimeTypes[i]))
    THEN "content-type"
  ELSE "eligible"

(* lines 193, 203, 212 and 215-231: the response returned to the client *)
StreamClient(response, verdict) ==
  IF verdict # "eligible" THEN response
  ELSE [status |-> response.status, statusText |-> response.statusText,
        headers |-> DropSetCookie(response.headers), body |-> response.body]

(* lines 193, 200-203, 212 and 234-241: the background promise when the call returns; *)
(* a response without a body has no stream to tee                                     *)
StreamPromise(response, ctx, verdict) ==
  IF verdict \in {"status", "content-type"} THEN "resolved"
  ELSE IF verdict = "hit-for-pass" THEN (IF ctx.cacheKey # <<>> THEN "hfpWrite" ELSE "resolved")
  ELSE IF response.body = <<>> THEN "resolved"
  ELSE IF ctx.cacheKey = <<>> THEN "drain"
  ELSE "capture"

Teed(ctx, response, verdict) ==
  [pc |-> "returned", path |-> "streaming", ctx |-> ctx, origin |-> response, verdict |-> verdict,
   client |-> StreamClient(response, verdict), task |-> StreamPromise(response, ctx, verdict),
   record |-> NoRecord, puts |-> 0]

(* lines 178-231 and 286-287: fetchStreamingResponse returns *)
TeeFetch(rq, keyed, response) ==
  /\ tee.pc = "idle"
  /\ tee' = Teed(IF keyed THEN WithKey(createContext(rq, config), config) ELSE createContext(rq, config),
                 response,
                 StreamVerdict(response, config, HGet(response.headers, "cache-control"),
                               HGet(response.headers, "surrogate-control"), HGet(response.headers, "vary")))
  /\ UNCHANGED store
  /\ TeeFrame

(* lines 200-201: the hit-for-pass marker is written *)
TeeHfpWrite ==
  /\ tee.pc = "returned" /\ tee.task = "hfpWrite"
  /\ store' = storeHitForPass(store, tee.ctx.cacheKey, config, now)
  /\ tee' = [tee EXCEPT !.task = "resolved", !.puts = @ + 1]
  /\ TeeFrame

(* line 201: the write rejects and .catch logs it *)
TeeHfpWriteFails ==
  /\ tee.pc = "returned" /\ tee.task = "hfpWrite"
  /\ tee' = [tee EXCEPT !.task = "resolved"]
  /\ UNCHANGED store
  /\ TeeFrame

(* lines 235-241: without a key the unused branch is consumed *)
TeeDrain ==
  /\ tee.pc = "returned" /\ tee.task = "drain"
  /\ tee' = [tee EXCEPT !.task = "resolved"]
  /\ UNCHANGED store
  /\ TeeFrame

(* line 238 is outside the try block: a stream error rejects the promise *)
TeeDrainFails ==
  /\ tee.pc = "returned" /\ tee.task = "drain"
  /\ tee' = [tee EXCEPT !.task = "rejected"]
  /\ UNCHANGED store
  /\ TeeFrame

Captured(s) ==
  tee' = IF s.write = "cache" THEN [tee EXCEPT !.task = "write", !.record = s.cacheResult]
         ELSE [tee EXCEPT !.task = "resolved"]

(* lines 243-275: the body is read and the body-dependent checks run *)
TeeCapture ==
  /\ tee.pc = "returned" /\ tee.task = "capture"
  /\ Captured(fetchStreamingResponse(tee.origin, tee.ctx, config, now))
  /\ UNCHANGED store
  /\ TeeFrame

(* lines 244 and 280-283: reading the body fails inside the try block *)
TeeCaptureFails ==
  /\ tee.pc = "returned" /\ tee.task = "capture"
  /\ tee' = [tee EXCEPT !.task = "resolved"]
  /\ UNCHANGED store
  /\ TeeFrame

(* lines 277-279 *)
TeeWrite ==
  /\ tee.pc = "returned" /\ tee.task = "write"
  /\ store' = writeCacheRecord(store, tee.ctx.cacheKey, tee.record, now)
  /\ tee' = [tee EXCEPT !.task = "resolved", !.puts = @ + 1]
  /\ TeeFrame

(* lines 277 and 280-283: the write rejects inside the try block *)
TeeWriteFails ==
  /\ tee.pc = "returned" /\ tee.task = "write"
  /\ tee' = [tee EXCEPT !.task = "resolved"]
  /\ UNCHANGED store
  /\ TeeFrame

Buffered(ctx, response, result) ==
  /\ tee' = [pc |-> "returned", path |-> "buffered", ctx |-> ctx, origin |-> response, verdict |-> "",
             client |-> result.response, task |-> "resolved", record |-> result.cacheResult,
             puts |-> IF result.cacheResult # NoRecord /\ ctx.cacheKey # <<>> THEN 1 ELSE 0]
  /\ store' = IF result.cacheResult # NoRecord /\ ctx.cacheKey # <<>>
              THEN writeCacheRecord(store, ctx.cacheKey, result.cacheResult, now)
              ELSE store

Buffering(ctx, response) == Buffered(ctx, response, fetchCacheableResponse(response, ctx, config, "true", now))

(* lines 74-157: fetchCacheableResponse on the same inputs *)
TeeBuffered(rq, keyed, response) ==
  /\ tee.pc = "idle"
  /\ Buffering(IF keyed THEN WithKey(createContext(rq, config), config) ELSE createContext(rq, config), response)
  /\ TeeFrame

TeeNext ==
  \/ \E rq \in TeeRequests, keyed \in BOOLEAN, response \in TeeResponses : TeeFetch(rq, keyed, response)
  \/ \E rq \in TeeRequests, keyed \in BOOLEAN, response \in TeeResponses : TeeBuffered(rq, keyed, response)
  \/ TeeHfpWrite
  \/ TeeHfpWriteFails
  \/ TeeDrain
  \/ TeeDrainFails
  \/ TeeCapture
  \/ TeeCaptureFails
  \/ TeeWrite
  \/ TeeWriteFails

TeeSpec == TeeInit /\ [][TeeNext]_vars

(* C31 as stated: the streaming path writes at most once per request,  *)
(* its background promise never rejects and the client response stays  *)
(* the one that was returned                                           *)
C31_Original ==
  (tee.pc = "returned" /\ tee.path = "streaming")
    => /\ tee.puts <= 1
       /\ tee.task # "rejected"
       /\ tee.client = StreamClient(tee.origin, tee.verdict)

LeakyNames == {"set-cookie", "age", "x-powered-by", "server", "via", "x-varnish", "link"}

(* C35: no cache-variant record in the store, written by the buffered  *)
(* or by the streaming path, has a Set-Cookie, Age, X-Powered-By,      *)
(* Server, Via, X-Varnish or Link header, and the HIT and STALE        *)
(* responses built from it carry no Set-Cookie                         *)
C35_RecordsSanitized ==
  \A k \in DOMAIN store :
    KvGet(store, k).state = "cache"
      => /\ DOMAIN KvGet(store, k).headers \cap LeakyNames = {}
         /\ \A status \in {"HIT", "STALE"} :
              ~HHas(buildCachedResponse(KvGet(store, k), tee.ctx, config, status, <<>>).headers, "set-cookie")

C35_Witness ==
  /\ tee.pc = "returned" /\ tee.path = "streaming" /\ tee.puts = 1
  /\ tee.origin.headers = H_leaky
  /\ KvGet(store, tee.ctx.cacheKey).state = "cache"
  /\ HGet(KvGet(store, tee.ctx.cacheKey).headers, "x-custom") = <<"1">>

(* C40 as stated: for an eligible origin response the streaming path   *)
(* returns the status and headers the buffered path returns, so a      *)
(* Set-Cookie of the origin reaches the client on both                 *)
C40_Original ==
  (tee.pc = "returned" /\ tee.path = "streaming" /\ tee.verdict = "eligible")
    => /\ tee.client.status = fetchCacheableResponse(tee.origin, tee.ctx, config, "true", now).response.status
       /\ tee.client.headers = fetchCacheableResponse(tee.origin, tee.ctx, config, "true", now).response.headers

(* ------------------------------------------------------------------ *)
(* The purge-all sweep on its own, under fair scheduling: an           *)
(* authorized X-Purge-All request has entered purgeAllKeys on a store  *)
(* holding any of the keys; a pending list call and the deletes of a   *)
(* listed page are eventually carried out; writers may run alongside   *)
(* ------------------------------------------------------------------ *)
SweepRequest == Request("POST", L_pathP, Q_gclid, PurgeHeaders(T_secret, T_true, <<>>))

SweepConfig == [DEFAULTS EXCEPT !.purgeSecret = T_secret]

SweepStores ==
  { [k \in {PurgeKeyOf(i, SweepConfig) : i \in held} |-> storeHitForPass([j \in {} |-> NoRecord], k, SweepConfig, 0)[k]] :
      held \in SUBSET (1..Len(PurgeSearches)) }

SweepInit ==
  /\ config = SweepConfig
  /\ now = 0
  /\ store \in SweepStores
  /\ req = [r \in Slots |-> IdleRequest]
  /\ bg = [r \in Slots |-> IdleTask]
  /\ out = NoOut
  /\ lastPut = [k \in {} |-> NoRecord]
  /\ kStage = "off"
  /\ kReq = NoRequest
  /\ kCtx = NoContext
  /\ kBypass = NoBypass
  /\ kKey = <<>>
  /\ ttl = NoTtl
  /\ purge = handlePurgeRequest([NoPurge EXCEPT !.pc = "idle", !.request = SweepRequest, !.initial = DOMAIN store,
                                                !.keys = PurgeKeysOf(Len(PurgeSearches), config)],
                                createContext(SweepRequest, config), config)
  /\ dec = NoDec
  /\ fin = NoFin
  /\ hooks = NoHooks
  /\ fwd = NoFwd
  /\ tee = NoTee
  /\ probe = NoProbe

SweepNext ==
  \/ \E i \in 1..Len(PurgeSearches) : PurgePut(i)
  \/ PurgeList
  \/ PurgeDeletePage

PurgeFairSpec == SweepInit /\ [][SweepNext]_vars /\ WF_vars(PurgeList) /\ WF_vars(PurgeDeletePage)

Sweeping == purge.all /\ purge.pc \in {"list", "deletePage"}

(* a list call is made with the cursor of the page before it, and the page the store *)
(* reports as complete is the last one                                               *)
SweepStep ==
  /\ (purge.pc = "deletePage" /\ purge'.pc = "list")
       => /\ ~purge.complete
          /\ purge'.cursor = Last(purge.page)
          /\ purge'.lists = purge.lists
  /\ (purge.pc = "deletePage" /\ purge.complete) => purge'.pc \in {"deletePage", "done"}
  /\ (purge.pc = "list" /\ purge'.pc # "list") => purge'.pc = "deletePage" /\ purge'.lists = purge.lists + 1

(* C36: the purge-all sweep repeats list-then-delete with the cursor   *)
(* of the previous page, never lists again after the page reported     *)
(* complete, and terminates                                            *)
C36_SweepTerminates ==
  /\ [](purge.pc = "list" => ~purge.complete)
  /\ [][SweepStep]_vars
  /\ (Sweeping ~> purge.pc = "done")

C36_Witness ==
  /\ purge.pc = "done" /\ purge.all
  /\ purge.lists >= 2 /\ purge.complete
  /\ purge.totalDeleted >= 2

(* ------------------------------------------------------------------ *)
(* The fetch handler next to one authorized single-key purge: requests *)
(* and revalidations run in their slots while the purge derives its    *)
(* key and deletes it; the purge remembers which slots were under way  *)
(* for its key when the delete resolved, and which began afterwards    *)
(* ------------------------------------------------------------------ *)
RaceConfigs == {[DEFAULTS EXCEPT !.purgeSecret = T_secret, !.plugins = <<mergedCssGuardPlugin>>]}

(* a cacheable page request for the purged url and a request that bypasses the cache *)
RaceRequests ==
  { Request("GET", L_pathP, Q_gclid, PlainHeaders),
    Request("POST", L_pathP, Q_a, PlainHeaders) }

(* an answer the handler stores and one it marks hit-for-pass *)
RaceResponses ==
  { OriginResponse(200, "OK", H_rich, B_links),
    OriginResponse(200, "OK", H_varyStar, B_page) }

RacePurgeRequest == Request("POST", L_pathP, Q_gclid, PurgeHeaders(T_secret, <<>>, <<>>))

RaceInit ==
  /\ config \in RaceConfigs
  /\ now = 0
  /\ store = [k \in {} |-> NoRecord]
  /\ req = [r \in Slots |-> IdleRequest]
  /\ bg = [r \in Slots |-> IdleTask]
  /\ out = NoOut
  /\ lastPut = [k \in {} |-> NoRecord]
  /\ kStage = "off"
  /\ kReq = NoRequest
  /\ kCtx = NoContext
  /\ kBypass = NoBypass
  /\ kKey = <<>>
  /\ ttl = NoTtl
  /\ purge = [NoPurge EXCEPT !.pc = "idle"]
  /\ dec = NoDec
  /\ fin = NoFin
  /\ hooks = NoHooks
  /\ fwd = NoFwd
  /\ tee = NoTee
  /\ probe = NoProbe

(* index.ts lines 10-40: a request enters; one that enters after the purge is noted *)
RaceStart(r, rq) ==
  /\ Begin(r, rq)
  /\ purge' = IF purge.pc = "done" THEN [purge EXCEPT !.later = @ \cup {r}] ELSE purge
  /\ UNCHANGED <<config, now, store, out, lastPut, keyVars, ttl, lateVars>>

RaceNext ==
  \/ \E r \in Slots, rq \in RaceRequests : RaceStart(r, rq)
  \/ \E r \in Slots, resp \in RaceResponses : BypassFetch(r, resp)
  \/ \E r \in Slots, v \in [1..Len(config.plugins) -> BOOLEAN] : ReadRecord(r, v)
  \/ \E r \in Slots, resp \in RaceResponses : PassFetch(r, resp)
  \/ \E r \in Slots : Invalidate(r)
  \/ \E r \in Slots, resp \in RaceResponses : InvalidFetch(r, resp)
  \/ \E r \in Slots, resp \in RaceResponses,
        v \in [1..Len(config.plugins) -> {"true", "hit-for-pass"}] : MissFetch(r, resp, v)
  \/ \E r \in Slots : InnerWrite(r)
  \/ \E r \in Slots : OuterWrite(r)
  \/ \E r \in Slots : HfpWrite(r)
  \/ \E r \in Slots, resp \in RaceResponses,
        v \in [1..Len(config.plugins) -> {"true", "hit-for-pass"}] : RevalidateFetch(r, resp, v)
  \/ \E r \in Slots : RevalidateWrite(r)
  \/ Deliver
  \/ \E d \in TickSteps : Tick(d)
  \/ PurgeStart(RacePurgeRequest)
  \/ PurgeDeleteKey

RaceSpec == RaceInit /\ [][RaceNext]_vars

PurgedKey == purge.pc = "done" /\ ~purge.all /\ purge.response.status = 200

(* the original reading of C37: once the single-key purge of K has     *)
(* completed, K is absent for as long as no request has begun after    *)
(* the purge, whatever was under way when the purge ran                *)
C37_Original ==
  (PurgedKey /\ purge.later = {}) => purge.cacheKey \notin DOMAIN store

(* the step that brings the purged key back is one of a request that began after the purge *)
Recreated ==
  (PurgedKey /\ purge.inFlight = {} /\ purge.cacheKey \notin DOMAIN store /\ purge.cacheKey \in DOMAIN store')
    => \E r \in purge.later :
         \/ req[r].cacheKey = purge.cacheKey /\ req'[r] # req[r]
         \/ bg[r].cacheKey = purge.cacheKey /\ bg'[r] # bg[r]

(* C37: after an authorized single-key purge of K has completed with   *)
(* no miss and no revalidation for K under way, K stays absent from    *)
(* the store until a request that begins after the purge stores it     *)
C37_AbsentUnlessRaced ==
  /\ []((PurgedKey /\ purge.inFlight = {} /\ purge.later = {}) => purge.cacheKey \notin DOMAIN store)
  /\ [][Recreated]_vars

(* the purge found K stored and nothing under way, and no request has begun since *)
C37_Witness ==
  /\ PurgedKey /\ purge.inFlight = {} /\ purge.later = {}
  /\ purge.cacheKey \in purge.initial
  /\ purge.cacheKey \notin DOMAIN store

====
